---- MODULE Spec2Model ----
(***************************************************************************)
(* Ticket lifecycle and autopilot orchestration of autopilotTS.            *)
(*                                                                         *)
(* The state is the ticket store (Storage, tickets.json), the worktree     *)
(* directories under the automation path, the two configured paths, and,   *)
(* for every Commands instance, the fields and the position of its         *)
(* autopilotMode call.  Asynchronous functions are cut at their awaits:    *)
(* the synchronous code between two awaits is one action.                  *)
(***************************************************************************)
EXTENDS Integers, Sequences, FiniteSets, TLC

\* ------------------------------------------------------------------ bounds
MaxTickets == 2      \* tickets in the store
MaxTime == 2         \* distinct createdAt values
MaxCommandTickets == 1   \* tickets created in the command-line sessions
MaxWebTickets == 1   \* tickets in the store of the web server
MaxStoreTickets == 3 \* tickets, and distinct ids, in the sessions that create
                     \*   and delete tickets
MaxWorktrees == 2    \* ticket ids in the sessions that call the resolver
                     \*   and the worktree operations directly
MaxTemplate == 3     \* pieces of a configured prompt template
MaxCommits == 2      \* distinct commits the branches of a repository point at
MaxBranchTickets == 1 \* tickets with branches in the base repository
MaxFairTickets == 1  \* tickets in the store of a run whose calls all return

\* ------------------------------------------------------------- vocabulary
Absent == "absent"   \* an optional field that is not set (undefined)
Date == "date"       \* a timestamp that is set (new Date())
Description == "description"   \* the description a ticket is created with

PENDING == "pending"
BRANCHING == "branching"
WORKING == "working"
STOPPED == "stopped"
CLOSED == "closed"
ERROR == "error"
TicketStatus == {PENDING, BRANCHING, WORKING, STOPPED, CLOSED, ERROR}

\* Commands instances: the one of index.ts and the ones the routes construct
CliInstance == "cli"
RequestInstances == {"req1", "req2"}
Instances == {CliInstance} \cup RequestInstances

\* error messages
ErrCliNotFound == "GitHub Copilot CLI not found"
ErrAutomationPath == "Automation path not configured"
ErrBaseRepositoryPath == "Base repository path not configured"
ErrCopilotFailed == "Copilot CLI failed"
ErrGit == "git command failed"
ErrUnknown == "Unknown error"
ErrSimpleGit == "Cannot use simple-git on a directory that does not exist"

\* the text generateTicketSummary returns: its report or its failure notice
SummaryHtml == "<html summary>"

VARIABLES
  tickets,              \* Storage: TicketConfig.tickets, in store order
  worktrees,            \* ticket ids with a directory {automationPath}/{id}
  automationPath,       \* ConfigManager.getAutomationPath() is set
  baseRepositoryPath,   \* ConfigManager.getBaseRepositoryPath() is set
  autopilotRunning,     \* Commands.autopilotRunning, per instance
  autopilotShouldStop,  \* Commands.autopilotShouldStop, per instance
  autopilotCallback,    \* Commands.autopilotCallback is set, per instance
  pc,                   \* per instance: where its autopilotMode call stands
  pendingTickets,       \* per instance: the run's selected tickets
  i,                    \* per instance: index of the ticket at hand (1-based)
  worktreeMap,          \* per instance: ticket ids with a prepared worktree
  completed,            \* per instance: the run's completed list
  failed,               \* per instance: the run's failed list
  events,               \* per instance: updates delivered to the callback
  result,               \* per instance: what the last call with a callback
                        \*   returned to its caller
  resolved,             \* the call of resolve() that has returned to a caller
                        \*   that has not yet acted on it, or NoResult
  rejected,             \* per instance: a call was refused during this run
  processingSaw,        \* per instance: the status the store held for the
                        \*   ticket of the last processing event when the
                        \*   callback received that event, or Absent
  stopCalls,            \* per instance: stopAutopilot was called between
                        \*   the last run and the next (idle) or during the
                        \*   run in progress (running)
  httpResponse,         \* the last response of the web server to a request
                        \*   for the status or the stop of autopilot
  call,                 \* the last call made from outside the orchestrator to
                        \*   the resolver, to GitManager or for a description
                        \*   update: its arguments, the state it found and
                        \*   what it returned or threw; NoResult before any
  repo,                 \* the base repository: the branch checked out in it
                        \*   and the commit each branch points at
  interceptor,          \* the static fields of LogInterceptor, and which
                        \*   functions console.log and console.error are
  startPc,              \* position of the interactive start command
  startTicket           \* snapshot the interactive start command works on

vars == <<tickets, worktrees, automationPath, baseRepositoryPath,
          autopilotRunning, autopilotShouldStop, autopilotCallback, pc,
          pendingTickets, i, worktreeMap, completed, failed, events, result,
          resolved, rejected, processingSaw, stopCalls, httpResponse, call,
          repo, interceptor, startPc, startTicket>>

configVars == <<automationPath, baseRepositoryPath>>
runVars == <<autopilotRunning, autopilotShouldStop, autopilotCallback, pc,
             pendingTickets, i, worktreeMap, completed, failed, events, result,
             rejected, processingSaw, stopCalls>>
startVars == <<startPc, startTicket>>

\* --------------------------------------------------------------- Storage
\* Storage.createTicket: the record pushed to the store
NewTicket(id, createdAt) ==
  [id |-> id, name |-> id, status |-> PENDING, createdAt |-> createdAt,
   startedAt |-> Absent, stoppedAt |-> Absent, closedAt |-> Absent,
   branch |-> Absent, error |-> Absent, summary |-> Absent,
   description |-> Description]

\* { ...ticket, ...updates }
Merge(ticket, updates) ==
  [f \in DOMAIN ticket |-> IF f \in DOMAIN updates THEN updates[f] ELSE ticket[f]]

\* tickets.findIndex(t => t.id === id); 0 when there is none
FindIndex(store, id) ==
  IF \E k \in DOMAIN store : store[k].id = id
  THEN CHOOSE k \in DOMAIN store :
         /\ store[k].id = id
         /\ \A j \in DOMAIN store : store[j].id = id => k <= j
  ELSE 0

\* Storage.updateTicket
UpdateTicket(store, id, updates) ==
  LET index == FindIndex(store, id)
  IN IF index # 0
     THEN [store EXCEPT ![index] = Merge(store[index], updates)]
     ELSE store

\* Storage.getTicket finds a ticket (ids and names of the model differ in no
\* letter case, and a ticket's name is its id)
HasTicket(store, idOrName) == FindIndex(store, idOrName) # 0

\* Storage.getTicket, for an id or name that it finds
GetTicket(store, idOrName) == store[FindIndex(store, idOrName)]

IsPending(t) == t.status = PENDING

\* allTickets.filter(t => t.status === TicketStatus.PENDING)
RECURSIVE FilterPending(_)
FilterPending(s) ==
  IF s = <<>> THEN <<>>
  ELSE IF IsPending(Head(s)) THEN <<Head(s)>> \o FilterPending(Tail(s))
       ELSE FilterPending(Tail(s))

\* One insertion of the stable sort by createdAt: x goes after every element
\* that does not compare greater than it.
RECURSIVE InsertByCreatedAt(_, _)
InsertByCreatedAt(sorted, x) ==
  IF sorted = <<>> THEN <<x>>
  ELSE IF Head(sorted).createdAt - x.createdAt <= 0
       THEN <<Head(sorted)>> \o InsertByCreatedAt(Tail(sorted), x)
       ELSE <<x>> \o sorted

\* Array.prototype.sort((a, b) => a.createdAt - b.createdAt), which is stable
RECURSIVE SortByCreatedAt(_)
SortByCreatedAt(s) ==
  IF s = <<>> THEN <<>>
  ELSE InsertByCreatedAt(SortByCreatedAt(SubSeq(s, 1, Len(s) - 1)), s[Len(s)])

\* the selection without its sort
SelectPendingUnsorted(store) == FilterPending(store)

\* the selection of autopilotMode: pending tickets, oldest first
SelectPending(store) == SortByCreatedAt(FilterPending(store))

\* ------------------------------------------------------------ GitManager
\* GitManager.worktreeExists: the conventional path, when it is a directory
WorktreeExists(id, wts) ==
  IF ~automationPath THEN Absent
  ELSE IF id \in wts THEN id ELSE Absent

\* GitManager.createWorktree; gitOk: the git commands it runs succeed.
\* `git worktree add` fails on a path that already exists.
CreateWorktree(id, gitOk, wts) ==
  IF ~automationPath THEN [ok |-> FALSE, error |-> ErrAutomationPath, worktrees |-> wts]
  ELSE IF ~baseRepositoryPath
       THEN [ok |-> FALSE, error |-> ErrBaseRepositoryPath, worktrees |-> wts]
  ELSE IF ~gitOk \/ id \in wts THEN [ok |-> FALSE, error |-> ErrGit, worktrees |-> wts]
  ELSE [ok |-> TRUE, error |-> Absent, worktrees |-> wts \cup {id}]

\* GitManager.removeWorktree: throws without a base repository path, else the
\* directory is gone, by git or by the recursive deletion it falls back to
RemoveWorktree(id, wts) ==
  IF ~baseRepositoryPath THEN [ok |-> FALSE, worktrees |-> wts]
  ELSE [ok |-> TRUE, worktrees |-> wts \ {id}]

\* ------------------------------------------------------ TicketResolverCLI
\* What the collaborators of one use of the resolver do:
\*   resolver new TicketResolverCLI() returns (simpleGit finds its directory)
\*   cli      CopilotCLI.isAvailable()
\*   git      the git commands of createWorktree succeed
\*   agent    CopilotCLI.resolveTicket reports success
\*   status   the git status of the worktree can be read
\*   changed  the worktree's git status lists files
\*   commit   commitInWorktree succeeds
\*   test     createTestBranch succeeds
\*   sdk      the Copilot SDK is there and the diff is not empty
\*   message  the session of generateCommitMessage runs to its end
\* A collaborator that a failure before it keeps from being called is
\* recorded as succeeding, so that each course of a call is listed once.
EnvFields ==
  <<"resolver", "cli", "git", "agent", "status", "changed", "commit", "test", "sdk",
    "message">>

Envs ==
  LET allOk == [f \in {EnvFields[k] : k \in DOMAIN EnvFields} |-> TRUE]
  IN {allOk} \cup {[allOk EXCEPT ![EnvFields[k]] = FALSE] : k \in DOMAIN EnvFields}

CommitGenerated == "[feat]: generated"
\* the message resolve() formats from what generateCommitMessage returns when
\* its session fails, and the default of commitInWorktree
CommitFallback == "[feat]: Implement functionality for task({ticketId})"
CommitDefault == "[feat]: Implement functionality for {ticketId} task"
TestBranch == "test/copilot"

\* what became of the agent in a call of resolve()
AgentNotRun == "agent not run"
AgentFailed == "agent failed"
AgentUninspected == "agent succeeded, worktree not inspected"
AgentUnchanged == "agent succeeded, worktree unchanged"
AgentChanged == "agent succeeded, worktree changed"

\* the commit message resolve() hands to commitInWorktree: none without the
\* SDK or a diff, else what generateCommitMessage returns, formatted
EnrichedCommitMessage(env) ==
  IF ~env.sdk THEN Absent
  ELSE IF env.message THEN CommitGenerated ELSE CommitFallback

\* GitManager.commitInWorktree on a worktree with changes: the message of the
\* commit it makes
CommitInWorktree(customMessage) ==
  IF customMessage # Absent THEN customMessage ELSE CommitDefault

\* a catch block that leaves the worktree in place
ResolveFailureNoCleanup(worktreePath, cleanupOnError, message, agent, wts) ==
  [agent |-> agent, commit |-> Absent,
   result |-> [success |-> FALSE, hasChanges |-> FALSE, testBranch |-> Absent,
               commitMessage |-> Absent, summary |-> Absent, error |-> message,
               worktreePath |-> worktreePath],
   worktrees |-> wts]

\* a catch block that reports every error as 'Unknown error'
ResolveFailureUnknown(worktreePath, cleanupOnError, message, agent, wts) ==
  [agent |-> agent, commit |-> Absent,
   result |-> [success |-> FALSE, hasChanges |-> FALSE, testBranch |-> Absent,
               commitMessage |-> Absent, summary |-> Absent, error |-> ErrUnknown,
               worktreePath |-> worktreePath],
   worktrees |-> IF cleanupOnError /\ worktreePath # Absent
                 THEN RemoveWorktree(worktreePath, wts).worktrees
                 ELSE wts]

\* the catch block of resolve(): cleanup, then the failure result
\* (commit: the message of the commit the call made in the worktree, if any)
ResolveFailure(worktreePath, cleanupOnError, message, agent, wts) ==
  [agent |-> agent, commit |-> Absent,
   result |-> [success |-> FALSE, hasChanges |-> FALSE, testBranch |-> Absent,
               commitMessage |-> Absent, summary |-> Absent, error |-> message,
               worktreePath |-> worktreePath],
   worktrees |-> IF cleanupOnError /\ worktreePath # Absent
                 THEN RemoveWorktree(worktreePath, wts).worktrees
                 ELSE wts]

\* a return that names a test branch whether or not there were changes
ResolveSuccessBranching(worktreePath, hasChanges, commitMessage, summary, wts) ==
  [agent |-> IF hasChanges THEN AgentChanged ELSE AgentUnchanged,
   commit |-> IF hasChanges THEN CommitInWorktree(commitMessage) ELSE Absent,
   result |-> [success |-> TRUE, hasChanges |-> hasChanges,
               testBranch |-> TestBranch,
               commitMessage |-> commitMessage, summary |-> summary,
               error |-> Absent, worktreePath |-> worktreePath],
   worktrees |-> wts]

\* a return that removes the worktree it worked in
ResolveSuccessCleaning(worktreePath, hasChanges, commitMessage, summary, wts) ==
  [agent |-> IF hasChanges THEN AgentChanged ELSE AgentUnchanged,
   commit |-> IF hasChanges THEN CommitInWorktree(commitMessage) ELSE Absent,
   result |-> [success |-> TRUE, hasChanges |-> hasChanges,
               testBranch |-> IF hasChanges THEN TestBranch ELSE Absent,
               commitMessage |-> commitMessage, summary |-> summary,
               error |-> Absent, worktreePath |-> worktreePath],
   worktrees |-> RemoveWorktree(worktreePath, wts).worktrees]

\* the return of the try block of resolve()
ResolveSuccess(worktreePath, hasChanges, commitMessage, summary, wts) ==
  [agent |-> IF hasChanges THEN AgentChanged ELSE AgentUnchanged,
   commit |-> IF hasChanges THEN CommitInWorktree(commitMessage) ELSE Absent,
   result |-> [success |-> TRUE, hasChanges |-> hasChanges,
               testBranch |-> IF hasChanges THEN TestBranch ELSE Absent,
               commitMessage |-> commitMessage, summary |-> summary,
               error |-> Absent, worktreePath |-> worktreePath],
   worktrees |-> wts]

\* what the catch block of a caller makes of an exception of the resolver
Thrown(message) ==
  [agent |-> AgentNotRun, commit |-> Absent, thrown |-> TRUE,
   result |-> [success |-> FALSE, hasChanges |-> FALSE, testBranch |-> Absent,
               commitMessage |-> Absent, summary |-> Absent, error |-> message,
               worktreePath |-> Absent]]

\* what a caller holds when resolve() has returned out
Returned(out) ==
  [agent |-> out.agent, commit |-> out.commit, thrown |-> FALSE,
   result |-> out.result]

\* TicketResolverCLI.validateConfiguration: the message it throws, or Absent
ValidateConfiguration(env) ==
  IF ~env.cli THEN ErrCliNotFound
  ELSE IF ~automationPath THEN ErrAutomationPath
  ELSE IF ~baseRepositoryPath THEN ErrBaseRepositoryPath
  ELSE Absent

\* steps 3 to 6 of a resolve() that a failed enrichment aborts
ResolveInWorktreeEnriched(worktreePath, cleanupOnError, env, wts) ==
  IF ~env.agent
  THEN ResolveFailure(worktreePath, cleanupOnError, ErrCopilotFailed, AgentFailed, wts)
  ELSE IF ~env.status
  THEN ResolveFailure(worktreePath, cleanupOnError, ErrGit, AgentUninspected, wts)
  ELSE IF ~env.changed THEN ResolveSuccess(worktreePath, FALSE, Absent, Absent, wts)
  ELSE IF ~env.commit \/ ~env.test \/ ~env.sdk \/ ~env.message
  THEN ResolveFailure(worktreePath, cleanupOnError, ErrGit, AgentChanged, wts)
  ELSE ResolveSuccess(worktreePath, TRUE, EnrichedCommitMessage(env),
                      IF env.sdk THEN SummaryHtml ELSE Absent, wts)

\* steps 3 to 6 of a resolve() that counts an unchanged worktree a failure
ResolveInWorktreeStrict(worktreePath, cleanupOnError, env, wts) ==
  IF ~env.agent
  THEN ResolveFailure(worktreePath, cleanupOnError, ErrCopilotFailed, AgentFailed, wts)
  ELSE IF ~env.status
  THEN ResolveFailure(worktreePath, cleanupOnError, ErrGit, AgentUninspected, wts)
  ELSE IF ~env.changed
  THEN ResolveFailure(worktreePath, cleanupOnError, ErrUnknown, AgentUnchanged, wts)
  ELSE IF ~env.commit \/ ~env.test
  THEN ResolveFailure(worktreePath, cleanupOnError, ErrGit, AgentChanged, wts)
  ELSE ResolveSuccess(worktreePath, TRUE, EnrichedCommitMessage(env),
                      IF env.sdk THEN SummaryHtml ELSE Absent, wts)

\* steps 3 to 6 of resolve(), once the worktree is acquired
ResolveInWorktree(worktreePath, cleanupOnError, env, wts) ==
  IF ~env.agent
  THEN ResolveFailure(worktreePath, cleanupOnError, ErrCopilotFailed, AgentFailed, wts)
  ELSE IF ~env.status
  THEN ResolveFailure(worktreePath, cleanupOnError, ErrGit, AgentUninspected, wts)
  ELSE IF ~env.changed THEN ResolveSuccess(worktreePath, FALSE, Absent, Absent, wts)
  ELSE IF ~env.commit
  THEN ResolveFailure(worktreePath, cleanupOnError, ErrGit, AgentChanged, wts)
  ELSE IF ~env.test
  THEN [ResolveFailure(worktreePath, cleanupOnError, ErrGit, AgentChanged, wts)
          EXCEPT !.commit = CommitInWorktree(EnrichedCommitMessage(env))]
  ELSE ResolveSuccess(worktreePath, TRUE, EnrichedCommitMessage(env),
                      IF env.sdk THEN SummaryHtml ELSE Absent, wts)

\* a resolve() that takes the caller's worktree before it validates
ResolveAssignsFirst(id, existingWorktree, cleanupOnError, env, wts) ==
  IF ValidateConfiguration(env) # Absent
  THEN ResolveFailure(existingWorktree, cleanupOnError, ValidateConfiguration(env),
                      AgentNotRun, wts)
  ELSE IF existingWorktree # Absent
       THEN ResolveInWorktree(existingWorktree, cleanupOnError, env, wts)
  ELSE LET created == CreateWorktree(id, env.git, wts)
       IN IF ~created.ok
          THEN ResolveFailure(Absent, cleanupOnError, created.error, AgentNotRun, wts)
          ELSE ResolveInWorktree(id, cleanupOnError, env, created.worktrees)

\* TicketResolverCLI.resolve for ticket id; existingWorktree is Absent or the
\* worktree the caller prepared
Resolve(id, existingWorktree, cleanupOnError, env, wts) ==
  IF ValidateConfiguration(env) # Absent
  THEN ResolveFailure(Absent, cleanupOnError, ValidateConfiguration(env), AgentNotRun, wts)
  ELSE IF existingWorktree # Absent
       THEN ResolveInWorktree(existingWorktree, cleanupOnError, env, wts)
  ELSE LET created == CreateWorktree(id, env.git, wts)
       IN IF ~created.ok
          THEN ResolveFailure(Absent, cleanupOnError, created.error, AgentNotRun, wts)
          ELSE ResolveInWorktree(id, cleanupOnError, env, created.worktrees)

\* --------------------------------------------------------- LogInterceptor
\* console.log and console.error are the functions the process started with
\* or the wrappers that LogInterceptor.start installs
OriginalFunction == "original"
InterceptorFunction == "interceptor"

\* the static fields of LogInterceptor and the two console functions
\* when the process starts
NotIntercepting ==
  [isIntercepting |-> FALSE, originalLog |-> Absent, originalError |-> Absent,
   currentTicketId |-> Absent, consoleLog |-> OriginalFunction,
   consoleError |-> OriginalFunction]

\* LogInterceptor.start(): nothing when interception is on, else the console
\* functions are saved and the wrappers installed
LogInterceptorStart(s) ==
  IF s.isIntercepting THEN s
  ELSE [s EXCEPT !.currentTicketId = Absent,
                 !.originalLog = s.consoleLog,
                 !.originalError = s.consoleError,
                 !.isIntercepting = TRUE,
                 !.consoleLog = InterceptorFunction,
                 !.consoleError = InterceptorFunction]

\* LogInterceptor.stop(): nothing when interception is off, else the saved
\* functions are put back
LogInterceptorStop(s) ==
  IF ~s.isIntercepting THEN s
  ELSE [s EXCEPT !.consoleLog = s.originalLog,
                 !.consoleError = s.originalError,
                 !.isIntercepting = FALSE,
                 !.currentTicketId = Absent]

\* LogInterceptor.setTicketId
SetTicketId(s, ticketId) == [s EXCEPT !.currentTicketId = ticketId]

\* ------------------------------------------------- Commands.autopilotMode
TicketRef(t) == [id |-> t.id, name |-> t.name]

StartedEvent(selected) ==
  [type |-> "started", total |-> Len(selected),
   tickets |-> [k \in DOMAIN selected |-> TicketRef(selected[k])]]

\* a processing event that carries the loop index as it is
ProcessingEventFromZero(t, current, total) ==
  [type |-> "processing", current |-> current - 1, total |-> total,
   ticket |-> TicketRef(t)]

ProcessingEvent(t, current, total) ==
  [type |-> "processing", current |-> current, total |-> total, ticket |-> TicketRef(t)]

TicketCompletedEvent(t, current, total) ==
  [type |-> "ticket_completed", ticket |-> TicketRef(t), current |-> current,
   total |-> total]

TicketFailedEvent(t, error, current, total) ==
  [type |-> "ticket_failed", ticket |-> TicketRef(t), error |-> error,
   current |-> current, total |-> total]

CancelledEvent == [type |-> "cancelled"]
\* a run without tickets that reports itself complete instead
NoTicketsAsCompleted ==
  [type |-> "completed",
   result |-> [completed |-> <<>>, failed |-> <<>>, cancelled |-> FALSE]]

NoTicketsEvent == [type |-> "no_tickets"]
CompletedEvent(res) == [type |-> "completed", result |-> res]

\* a sendUpdate that delivers each update twice
SendUpdateTwice(c, ev, update) ==
  IF autopilotCallback[c] THEN Append(Append(ev, update), update) ELSE ev

\* Commands.sendUpdate: the events of instance c after update is sent
SendUpdate(c, ev, update) == IF autopilotCallback[c] THEN Append(ev, update) ELSE ev

\* no call of stopAutopilot is on record
NoStopCalls == [idle |-> FALSE, running |-> FALSE]

\* a finally block that leaves the stop flag as it is
FinallyKeepsStop(c) ==
  /\ autopilotRunning' = [autopilotRunning EXCEPT ![c] = FALSE]
  /\ UNCHANGED autopilotShouldStop
  /\ autopilotCallback' = [autopilotCallback EXCEPT ![c] = FALSE]
  /\ pc' = [pc EXCEPT ![c] = "idle"]
  /\ pendingTickets' = [pendingTickets EXCEPT ![c] = <<>>]
  /\ i' = [i EXCEPT ![c] = 0]
  /\ worktreeMap' = [worktreeMap EXCEPT ![c] = {}]
  /\ completed' = [completed EXCEPT ![c] = <<>>]
  /\ failed' = [failed EXCEPT ![c] = <<>>]

\* the finally block of autopilotMode, and the locals of the call dropped
Finally(c) ==
  /\ autopilotRunning' = [autopilotRunning EXCEPT ![c] = FALSE]
  /\ autopilotShouldStop' = [autopilotShouldStop EXCEPT ![c] = FALSE]
  /\ autopilotCallback' = [autopilotCallback EXCEPT ![c] = FALSE]
  /\ pc' = [pc EXCEPT ![c] = "idle"]
  /\ pendingTickets' = [pendingTickets EXCEPT ![c] = <<>>]
  /\ i' = [i EXCEPT ![c] = 0]
  /\ worktreeMap' = [worktreeMap EXCEPT ![c] = {}]
  /\ completed' = [completed EXCEPT ![c] = <<>>]
  /\ failed' = [failed EXCEPT ![c] = <<>>]

\* a loop that a failed ticket ends as a stop request does
BreakOnFailure(c) ==
  autopilotShouldStop[c] \/ (pc[c] = "resolved" /\ ~resolved.result.success)

\* a loop that never looks at the stop flag
NeverBreak(c) == FALSE

\* the stop check that opens each iteration of the resolution loop
ShouldBreak(c) == autopilotShouldStop[c]

\* The head of the resolution loop for iteration k, entered with the store st,
\* the events ev, the lists cp and fl and the worktree map: the stop check,
\* then either the processing event and the first statement of
\* resolveTicketAutopilot (up to the await of resolve), or the end of the run.
LoopHead(c, k, st, ev, cp, fl, map) ==
  LET selected == pendingTickets[c]
      total == Len(selected)
  IN IF k <= total /\ ~ShouldBreak(c)
     THEN /\ interceptor' = SetTicketId(interceptor, selected[k].id)
          /\ events' = [events EXCEPT
                          ![c] = SendUpdate(c, ev, ProcessingEvent(selected[k], k, total))]
          /\ processingSaw' = [processingSaw EXCEPT
                                 ![c] = IF /\ autopilotCallback[c]
                                           /\ HasTicket(st, selected[k].id)
                                        THEN GetTicket(st, selected[k].id).status
                                        ELSE Absent]
          /\ tickets' = UpdateTicket(st, selected[k].id,
                                     [status |-> WORKING, startedAt |-> Date])
          /\ i' = [i EXCEPT ![c] = k]
          /\ pc' = [pc EXCEPT ![c] = "resolving"]
          /\ completed' = [completed EXCEPT ![c] = cp]
          /\ failed' = [failed EXCEPT ![c] = fl]
          /\ worktreeMap' = [worktreeMap EXCEPT ![c] = map]
          /\ UNCHANGED <<autopilotRunning, autopilotShouldStop, autopilotCallback,
                         pendingTickets, result, stopCalls>>
     ELSE LET res == [completed |-> cp, failed |-> fl,
                      cancelled |-> autopilotShouldStop[c]]
              ev1 == IF k <= total THEN SendUpdate(c, ev, CancelledEvent) ELSE ev
          IN /\ events' = [events EXCEPT ![c] = SendUpdate(c, ev1, CompletedEvent(res))]
             /\ result' = [result EXCEPT ![c] = IF autopilotCallback[c] THEN res ELSE @]
             /\ tickets' = st
             /\ interceptor' = LogInterceptorStop(interceptor)
             /\ Finally(c)
             /\ stopCalls' = [stopCalls EXCEPT ![c] = NoStopCalls]
             /\ UNCHANGED processingSaw

\* no call has returned yet
NoResult == [none |-> TRUE]

EmptyResult == [completed |-> <<>>, failed |-> <<>>, cancelled |-> FALSE]

\* autopilotMode on an instance that is not running: from the guard to the
\* first await of the preparation loop (or to the return, with no ticket).
\* callback: the caller passes a callback (and keeps what the call returns).
AutopilotBegin(c, callback) ==
  /\ ~autopilotRunning[c]
  /\ LET selected == SelectPending(tickets)
     IN IF Len(selected) = 0
        THEN /\ events' = [events EXCEPT
                             ![c] = IF callback THEN <<NoTicketsEvent>> ELSE <<>>]
             /\ result' = [result EXCEPT
                             ![c] = IF callback THEN EmptyResult ELSE NoResult]
             /\ stopCalls' = [stopCalls EXCEPT ![c] = NoStopCalls]
             /\ interceptor' = LogInterceptorStop(LogInterceptorStart(interceptor))
             /\ Finally(c)
        ELSE /\ autopilotRunning' = [autopilotRunning EXCEPT ![c] = TRUE]
             /\ interceptor' = LogInterceptorStart(interceptor)
             /\ autopilotShouldStop' = [autopilotShouldStop EXCEPT ![c] = FALSE]
             /\ autopilotCallback' = [autopilotCallback EXCEPT ![c] = callback]
             /\ pendingTickets' = [pendingTickets EXCEPT ![c] = selected]
             /\ events' = [events EXCEPT
                             ![c] = IF callback THEN <<StartedEvent(selected)>> ELSE <<>>]
             /\ pc' = [pc EXCEPT ![c] = "preparing"]
             /\ i' = [i EXCEPT ![c] = 1]
             /\ worktreeMap' = [worktreeMap EXCEPT ![c] = {}]
             /\ completed' = [completed EXCEPT ![c] = <<>>]
             /\ failed' = [failed EXCEPT ![c] = <<>>]
             /\ result' = [result EXCEPT ![c] = NoResult]
             /\ stopCalls' = [stopCalls EXCEPT ![c] = NoStopCalls]
  /\ rejected' = [rejected EXCEPT ![c] = FALSE]
  /\ processingSaw' = [processingSaw EXCEPT ![c] = Absent]
  /\ UNCHANGED <<tickets, worktrees, configVars, repo, call, httpResponse,
                 startVars, resolved>>

\* autopilotMode on an instance that is running: throws before anything else
AutopilotRejected(c) ==
  /\ autopilotRunning[c]
  /\ rejected' = [rejected EXCEPT ![c] = TRUE]
  /\ UNCHANGED <<tickets, worktrees, configVars, repo, interceptor, call,
                 httpResponse, startVars, autopilotRunning,
                 autopilotShouldStop, autopilotCallback, pc, pendingTickets, i,
                 worktreeMap, completed, failed, events, result, resolved,
                 processingSaw, stopCalls>>

\* a preparation loop that a failure ends (break in place of continue)
PrepareWorktreeAbort(c) ==
  /\ pc[c] = "preparing"
  /\ \E gitOk \in BOOLEAN :
       LET t == pendingTickets[c][i[c]]
           existing == WorktreeExists(t.id, worktrees)
           created == CreateWorktree(t.id, gitOk, worktrees)
           prepared == existing # Absent \/ created.ok
           map == IF prepared THEN worktreeMap[c] \cup {t.id} ELSE worktreeMap[c]
       IN /\ worktrees' = IF existing # Absent THEN worktrees ELSE created.worktrees
          /\ IF i[c] < Len(pendingTickets[c]) /\ prepared
             THEN /\ worktreeMap' = [worktreeMap EXCEPT ![c] = map]
                  /\ i' = [i EXCEPT ![c] = i[c] + 1]
                  /\ UNCHANGED <<tickets, interceptor, autopilotRunning,
                                 autopilotShouldStop, autopilotCallback, pc,
                                 pendingTickets, completed, failed, events,
                                 result, processingSaw, stopCalls>>
             ELSE LoopHead(c, 1, tickets, events[c], completed[c], failed[c], map)
  /\ UNCHANGED <<configVars, repo, call, httpResponse, startVars, rejected,
                 resolved>>

\* one iteration of the preparation loop: worktreeExists, else createWorktree
\* (a failure is logged and skipped); after the last one the resolution loop
\* is entered
PrepareWorktree(c) ==
  /\ pc[c] = "preparing"
  /\ \E gitOk \in BOOLEAN :
       LET t == pendingTickets[c][i[c]]
           existing == WorktreeExists(t.id, worktrees)
           created == CreateWorktree(t.id, gitOk, worktrees)
           prepared == existing # Absent \/ created.ok
           map == IF prepared THEN worktreeMap[c] \cup {t.id} ELSE worktreeMap[c]
       IN /\ worktrees' = IF existing # Absent THEN worktrees ELSE created.worktrees
          /\ IF i[c] < Len(pendingTickets[c])
             THEN /\ worktreeMap' = [worktreeMap EXCEPT ![c] = map]
                  /\ i' = [i EXCEPT ![c] = i[c] + 1]
                  /\ UNCHANGED <<tickets, interceptor, autopilotRunning,
                                 autopilotShouldStop, autopilotCallback, pc,
                                 pendingTickets, completed, failed, events,
                                 result, processingSaw, stopCalls>>
             ELSE LoopHead(c, 1, tickets, events[c], completed[c], failed[c], map)
  /\ UNCHANGED <<configVars, repo, call, httpResponse, startVars, rejected,
                 resolved>>

\* a store update that keeps the status and nothing else
StoreStatusOnly(store, id, r) ==
  UpdateTicket(store, id, [status |-> IF r.success THEN CLOSED ELSE ERROR])

\* a store update that records successes only
StoreOutcomeOfSuccess(store, id, r) ==
  IF r.success /\ r.summary # Absent
  THEN UpdateTicket(store, id,
                    [summary |-> r.summary, status |-> CLOSED, closedAt |-> Date])
  ELSE IF r.success
       THEN UpdateTicket(store, id, [status |-> CLOSED, closedAt |-> Date])
       ELSE store

\* a store update that records a branch name as the interactive start does
StoreOutcomeWithBranch(store, id, r) ==
  IF r.success
  THEN UpdateTicket(store, id,
                    [summary |-> r.summary, status |-> CLOSED, closedAt |-> Date,
                     branch |-> "copilot"])
  ELSE UpdateTicket(store, id,
                    [status |-> ERROR,
                     error |-> IF r.error # Absent THEN r.error ELSE ErrUnknown])

\* the store update of resolveTicketAutopilot for the result r of resolve()
StoreOutcome(store, id, r) ==
  IF r.success /\ r.summary # Absent
  THEN UpdateTicket(store, id,
                    [summary |-> r.summary, status |-> CLOSED, closedAt |-> Date])
  ELSE IF r.success
       THEN UpdateTicket(store, id, [status |-> CLOSED, closedAt |-> Date])
       ELSE UpdateTicket(store, id,
                         [status |-> ERROR,
                          error |-> IF r.error # Absent THEN r.error ELSE ErrUnknown])

\* the resolver that resolveTicketAutopilot constructs and calls returns or
\* throws
ResolveSettles(c) ==
  /\ pc[c] = "resolving"
  /\ resolved = NoResult
  /\ \E env \in Envs :
       LET t == pendingTickets[c][i[c]]
           existingWorktree == IF t.id \in worktreeMap[c] THEN t.id ELSE Absent
           out == Resolve(t.id, existingWorktree, TRUE, env, worktrees)
       IN IF ~env.resolver
          THEN /\ resolved' = Thrown(ErrSimpleGit)
               /\ UNCHANGED worktrees
          ELSE /\ worktrees' = out.worktrees
               /\ resolved' = Returned(out)
  /\ pc' = [pc EXCEPT ![c] = "resolved"]
  /\ UNCHANGED <<tickets, configVars, repo, interceptor, call, httpResponse,
                 startVars, autopilotRunning, autopilotShouldStop,
                 autopilotCallback, pendingTickets, i, worktreeMap, completed,
                 failed, events, result, rejected, processingSaw, stopCalls>>

\* a loop that calls the pipeline again for a ticket it failed on
ResolveReturnsRetrying(c) ==
  /\ pc[c] = "resolved"
  /\ LET k == i[c]
         t == pendingTickets[c][k]
         total == Len(pendingTickets[c])
         r == resolved.result
         st == IF resolved.thrown
               THEN UpdateTicket(tickets, t.id, [status |-> ERROR, error |-> r.error])
               ELSE StoreOutcome(tickets, t.id, r)
         cp == IF r.success
               THEN Append(completed[c],
                           [ticket |-> t.id, success |-> TRUE, summary |-> r.summary])
               ELSE completed[c]
         fl == IF r.success
               THEN failed[c]
               ELSE Append(failed[c],
                           [ticket |-> t.id, success |-> FALSE, error |-> r.error])
         ev == SendUpdate(c, events[c],
                          IF r.success THEN TicketCompletedEvent(t, k, total)
                          ELSE TicketFailedEvent(t, r.error, k, total))
     IN LoopHead(c, IF r.success THEN k + 1 ELSE k, st, ev, cp, fl,
                 worktreeMap[c])
  /\ resolved' = NoResult
  /\ UNCHANGED <<worktrees, configVars, repo, call, httpResponse, startVars,
                 rejected>>

\* resolveTicketAutopilot acts on what resolve() returned and returns to the
\* loop: the store update, the entry in completed or failed and its event,
\* then the head of the next iteration
ResolveReturns(c) ==
  /\ pc[c] = "resolved"
  /\ LET k == i[c]
         t == pendingTickets[c][k]
         total == Len(pendingTickets[c])
         r == resolved.result
         st == IF resolved.thrown
               THEN UpdateTicket(tickets, t.id, [status |-> ERROR, error |-> r.error])
               ELSE StoreOutcome(tickets, t.id, r)
         cp == IF r.success
               THEN Append(completed[c],
                           [ticket |-> t.id, success |-> TRUE, summary |-> r.summary])
               ELSE completed[c]
         fl == IF r.success
               THEN failed[c]
               ELSE Append(failed[c],
                           [ticket |-> t.id, success |-> FALSE, error |-> r.error])
         ev == SendUpdate(c, events[c],
                          IF r.success THEN TicketCompletedEvent(t, k, total)
                          ELSE TicketFailedEvent(t, r.error, k, total))
     IN LoopHead(c, k + 1, st, ev, cp, fl, worktreeMap[c])
  /\ resolved' = NoResult
  /\ UNCHANGED <<worktrees, configVars, repo, call, httpResponse, startVars,
                 rejected>>

\* the call is on record as made during a run or outside one
RecordStopCall(c) ==
  stopCalls' = [stopCalls EXCEPT
                  ![c] = IF autopilotRunning[c] THEN [@ EXCEPT !.running = TRUE]
                         ELSE [@ EXCEPT !.idle = TRUE]]

\* a stopAutopilot that sets the flag whether or not a run is in progress
StopAutopilotUnguarded(c) ==
  /\ autopilotShouldStop' = [autopilotShouldStop EXCEPT ![c] = TRUE]
  /\ RecordStopCall(c)
  /\ UNCHANGED <<tickets, worktrees, configVars, repo, interceptor, call,
                 httpResponse, startVars, autopilotRunning, autopilotCallback,
                 pc, pendingTickets, i, worktreeMap, completed, failed, events,
                 result, rejected, resolved, processingSaw>>

\* Commands.stopAutopilot
StopAutopilot(c) ==
  /\ autopilotShouldStop' = [autopilotShouldStop EXCEPT
                               ![c] = IF autopilotRunning[c] THEN TRUE ELSE @]
  /\ RecordStopCall(c)
  /\ UNCHANGED <<tickets, worktrees, configVars, repo, interceptor, call,
                 httpResponse, startVars, autopilotRunning, autopilotCallback,
                 pc, pendingTickets, i, worktreeMap, completed, failed, events,
                 result, rejected, resolved, processingSaw>>

\* --------------------------------------------- interactive start and stop
\* Commands.start up to its first await after a store write: the guards, then
\* working at once outside a git repository, branching inside one.
\* copilot: the constructor obtained a CopilotAgent.
Start(id) ==
  /\ startPc = "idle"
  /\ HasTicket(tickets, id)
  /\ GetTicket(tickets, id).status # WORKING
  /\ \E isGit \in BOOLEAN, copilot \in BOOLEAN :
       LET t == GetTicket(tickets, id)
       IN IF ~isGit
          THEN /\ tickets' = UpdateTicket(tickets, t.id,
                                          [status |-> WORKING, startedAt |-> Date])
               /\ startPc' = IF copilot THEN "analyzing" ELSE "idle"
               /\ startTicket' = IF copilot THEN t ELSE Absent
          ELSE /\ tickets' = UpdateTicket(tickets, t.id, [status |-> BRANCHING])
               /\ startPc' = "branching"
               /\ startTicket' = t
  /\ UNCHANGED <<worktrees, configVars, repo, interceptor, call, httpResponse,
                 runVars, resolved>>

\* Commands.start after BRANCHING: pullDevelop and createBranch, then working
\* with the branch name, or the catch block when one of them throws
StartBranching ==
  /\ startPc = "branching"
  /\ \E gitOk \in BOOLEAN, copilot \in BOOLEAN :
       IF gitOk
       THEN /\ tickets' = UpdateTicket(tickets, startTicket.id,
                                       [status |-> WORKING, startedAt |-> Date,
                                        branch |-> "copilot"])
            /\ startPc' = IF copilot THEN "analyzing" ELSE "idle"
            /\ startTicket' = IF copilot THEN startTicket ELSE Absent
       ELSE /\ tickets' = UpdateTicket(tickets, startTicket.id,
                                       [status |-> ERROR, error |-> ErrGit])
            /\ startPc' = "idle"
            /\ startTicket' = Absent
  /\ UNCHANGED <<worktrees, configVars, repo, interceptor, call, httpResponse,
                 runVars, resolved>>

\* Commands.analyzeTicketWithAI up to the return or the exception of the
\* resolver: nothing is attempted when the Copilot CLI is not available
AnalysisSettles ==
  /\ startPc = "analyzing"
  /\ resolved = NoResult
  /\ \E env \in Envs :
       IF ~env.cli
       THEN /\ startPc' = "idle"
            /\ startTicket' = Absent
            /\ UNCHANGED <<worktrees, resolved>>
       ELSE LET out == Resolve(startTicket.id, Absent, TRUE, env, worktrees)
            IN /\ IF ~env.resolver
                  THEN resolved' = Thrown(ErrSimpleGit) /\ UNCHANGED worktrees
                  ELSE resolved' = Returned(out) /\ worktrees' = out.worktrees
               /\ startPc' = "analyzed"
               /\ UNCHANGED startTicket
  /\ UNCHANGED <<tickets, configVars, repo, interceptor, call, httpResponse,
                 runVars>>

\* Commands.analyzeTicketWithAI acts on what resolve() returned, and start
\* returns: the ticket is closed when the result carries a summary
StartAnalysis ==
  /\ startPc = "analyzed"
  /\ tickets' = IF /\ ~resolved.thrown
                   /\ resolved.result.success
                   /\ resolved.result.summary # Absent
                THEN UpdateTicket(tickets, startTicket.id,
                                  [summary |-> resolved.result.summary,
                                   status |-> CLOSED, closedAt |-> Date])
                ELSE tickets
  /\ startPc' = "idle"
  /\ startTicket' = Absent
  /\ resolved' = NoResult
  /\ UNCHANGED <<worktrees, configVars, repo, interceptor, call, httpResponse,
                 runVars>>

\* a stop that writes the status alone
StopWithoutTimestamp(id) ==
  /\ HasTicket(tickets, id)
  /\ GetTicket(tickets, id).status = WORKING
  /\ tickets' = UpdateTicket(tickets, GetTicket(tickets, id).id,
                             [status |-> STOPPED])
  /\ UNCHANGED <<worktrees, configVars, repo, interceptor, call, httpResponse,
                 runVars, startVars, resolved>>

\* Commands.stop, when its git commands succeed (when one throws, the catch
\* block reports and nothing is written)
Stop(id) ==
  /\ HasTicket(tickets, id)
  /\ GetTicket(tickets, id).status = WORKING
  /\ tickets' = UpdateTicket(tickets, GetTicket(tickets, id).id,
                             [status |-> STOPPED, stoppedAt |-> Date])
  /\ UNCHANGED <<worktrees, configVars, repo, interceptor, call, httpResponse,
                 runVars, startVars, resolved>>

\* ------------------------------------------------------------- creation
\* ticket ids are opaque names; the k-th ticket created is called TicketIds[k]
TicketIds == <<"T-1", "T-2", "T-3", "T-4", "T-5">>

\* one ticket of Commands.import: skipped when the id exists, else created
\* with the wall-clock time now
Import(id, now) ==
  /\ ~HasTicket(tickets, id)
  /\ tickets' = Append(tickets, NewTicket(id, now))
  /\ UNCHANGED <<worktrees, configVars, repo, interceptor, call, httpResponse,
                 runVars, startVars, resolved>>

\* Storage.createTicket as `create <name>`, POST /api/tickets and the
\* create-ticket handler of the desktop shell call it: the name becomes the id
\* of a new record, whatever the store holds
Create(id, now) ==
  /\ tickets' = Append(tickets, NewTicket(id, now))
  /\ UNCHANGED <<worktrees, configVars, repo, interceptor, call, httpResponse,
                 runVars, startVars, resolved>>

\* Storage.deleteTicket: the first record with the id is spliced out
DeleteTicket(store, id) ==
  LET index == FindIndex(store, id)
  IN IF index # 0
     THEN SubSeq(store, 1, index - 1) \o SubSeq(store, index + 1, Len(store))
     ELSE store

\* Commands.delete once confirmed: the worktree of the ticket is removed when
\* there is one (a failure of the cleanup is reported and passed over), then
\* the record is deleted
Delete(id) ==
  /\ HasTicket(tickets, id)
  /\ worktrees' = IF WorktreeExists(id, worktrees) # Absent
                  THEN RemoveWorktree(id, worktrees).worktrees
                  ELSE worktrees
  /\ tickets' = DeleteTicket(tickets, GetTicket(tickets, id).id)
  /\ UNCHANGED <<configVars, repo, interceptor, call, httpResponse, runVars,
                 startVars, resolved>>

\* --------------------------------------------- branches of the base repository
\* A repository is the branch checked out in it (head) and, for each branch
\* name, the commit the branch points at: 0 when there is no such branch, else
\* one of the commits 1..MaxCommits.
BaseBranch == [kind |-> "base", id |-> Absent]
CopilotBranch(id) == [kind |-> "copilot", id |-> id]
TestBranchOf(id) == [kind |-> "test/copilot", id |-> id]

\* ticket ids whose worktrees the direct calls work on
WorktreeIds == {TicketIds[k] : k \in 1..MaxWorktrees}

\* ticket ids whose branches the repository of the model may hold
BranchIds == {TicketIds[k] : k \in 1..MaxBranchTickets}

BranchNames ==
  {BaseBranch} \cup {CopilotBranch(id) : id \in BranchIds}
               \cup {TestBranchOf(id) : id \in BranchIds}

\* the repositories a call may find: any branches, one of them checked out
Repos ==
  {r \in [head : BranchNames, at : [BranchNames -> 0..MaxCommits]] :
     r.at[r.head] # 0}

\* a repository with its base branch and nothing else
BareRepo ==
  [head |-> BaseBranch, at |-> [b \in BranchNames |-> IF b = BaseBranch THEN 1 ELSE 0]]

\* git.deleteLocalBranch(branch, true), `git branch -D`: refused for a branch
\* that does not exist or is checked out; gitOk: nothing else fails it
DeleteLocalBranch(r, branch, gitOk) ==
  IF gitOk /\ r.at[branch] # 0 /\ r.head # branch
  THEN [ok |-> TRUE, repo |-> [r EXCEPT !.at[branch] = 0]]
  ELSE [ok |-> FALSE, repo |-> r]

\* a checkout that moves to the branch when it exists already
CheckoutBranchOrExisting(r, branch, startPoint, gitOk) ==
  IF gitOk /\ r.at[branch] # 0
  THEN [ok |-> TRUE, repo |-> [r EXCEPT !.head = branch]]
  ELSE IF gitOk /\ r.at[startPoint] # 0
  THEN [ok |-> TRUE,
        repo |-> [r EXCEPT !.at[branch] = r.at[startPoint], !.head = branch]]
  ELSE [ok |-> FALSE, repo |-> r]

\* git.checkoutBranch(branch, startPoint), `git checkout -b`: refused when the
\* branch exists or the start point does not; else the branch is created at
\* the start point and checked out
CheckoutBranch(r, branch, startPoint, gitOk) ==
  IF gitOk /\ r.at[branch] = 0 /\ r.at[startPoint] # 0
  THEN [ok |-> TRUE,
        repo |-> [r EXCEPT !.at[branch] = r.at[startPoint], !.head = branch]]
  ELSE [ok |-> FALSE, repo |-> r]

\* git.checkout(branch): refused for a branch that does not exist
Checkout(r, branch, gitOk) ==
  IF gitOk /\ r.at[branch] # 0
  THEN [ok |-> TRUE, repo |-> [r EXCEPT !.head = branch]]
  ELSE [ok |-> FALSE, repo |-> r]

\* what may fail each of the three git commands of createTestBranch from
\* outside the repository's branches (TRUE: nothing does)
GitOutcomes == [delete : BOOLEAN, create : BOOLEAN, checkout : BOOLEAN]

\* GitManager.createTestBranch(id) on the repository r: what it returns or
\* throws, and the repository it leaves
CreateTestBranch(id, r, gitOk) ==
  LET deleted == DeleteLocalBranch(r, TestBranchOf(id), gitOk.delete)
      created == CheckoutBranch(deleted.repo, TestBranchOf(id), CopilotBranch(id),
                                gitOk.create)
      returned == Checkout(created.repo, BaseBranch, gitOk.checkout)
  IN IF ~baseRepositoryPath
     THEN [ok |-> FALSE, error |-> ErrBaseRepositoryPath, branch |-> Absent,
           repo |-> r]
     ELSE IF ~created.ok
     THEN [ok |-> FALSE, error |-> ErrGit, branch |-> Absent, repo |-> deleted.repo]
     ELSE IF ~returned.ok
     THEN [ok |-> FALSE, error |-> ErrGit, branch |-> Absent, repo |-> created.repo]
     ELSE [ok |-> TRUE, error |-> Absent, branch |-> TestBranchOf(id),
           repo |-> returned.repo]

\* ----------------------------------------------------------------- Init
\* stores of up to n pending tickets, as import or mock.ps1 leave them
InitialStores(n) ==
  {[k \in DOMAIN times |-> NewTicket(TicketIds[k], times[k])] :
     times \in UNION {[1..m -> 1..MaxTime] : m \in 0..n}}

\* the process has started: no run, no command under way
InitAll(stores, configured, repos, interceptors) ==
  /\ tickets \in stores
  /\ repo \in repos
  /\ interceptor \in interceptors
  /\ worktrees = {}
  /\ automationPath \in configured
  /\ baseRepositoryPath \in configured
  /\ autopilotRunning = [c \in Instances |-> FALSE]
  /\ autopilotShouldStop = [c \in Instances |-> FALSE]
  /\ autopilotCallback = [c \in Instances |-> FALSE]
  /\ pc = [c \in Instances |-> IF c = CliInstance THEN "idle" ELSE "new"]
  /\ pendingTickets = [c \in Instances |-> <<>>]
  /\ i = [c \in Instances |-> 0]
  /\ worktreeMap = [c \in Instances |-> {}]
  /\ completed = [c \in Instances |-> <<>>]
  /\ failed = [c \in Instances |-> <<>>]
  /\ events = [c \in Instances |-> <<>>]
  /\ result = [c \in Instances |-> NoResult]
  /\ resolved = NoResult
  /\ rejected = [c \in Instances |-> FALSE]
  /\ processingSaw = [c \in Instances |-> Absent]
  /\ stopCalls = [c \in Instances |-> NoStopCalls]
  /\ httpResponse = NoResult
  /\ call = NoResult
  /\ startPc = "idle"
  /\ startTicket = Absent

\* the same, with the console of a process that has just started
InitIn(stores, configured, repos) ==
  InitAll(stores, configured, repos, {NotIntercepting})

\* the same, beside a base repository that has its base branch only
InitWith(stores, configured) == InitIn(stores, configured, {BareRepo})

Init == InitWith(InitialStores(MaxTickets), BOOLEAN)

\* no autopilot run and no interactive start is under way
Quiet == startPc = "idle" /\ \A c \in Instances : ~autopilotRunning[c]

\* no caller of resolve() is about to resume: the continuation of an await
\* runs before the process turns to any other request
Unsettled == resolved = NoResult

\* ------------------------------------------------------- specifications
\* One autopilot run after another on one Commands instance, each called with
\* a callback, with stop requests arriving while a run is suspended
Next ==
  \/ AutopilotBegin(CliInstance, TRUE)
  \/ PrepareWorktree(CliInstance)
  \/ ResolveSettles(CliInstance)
  \/ ResolveReturns(CliInstance)
  \/ Unsettled /\ autopilotRunning[CliInstance] /\ StopAutopilot(CliInstance)

Spec == Init /\ [][Next]_vars

\* The same runs, with stop requests arriving at any time, also when no run is
\* in progress
NextStop ==
  \/ AutopilotBegin(CliInstance, TRUE)
  \/ PrepareWorktree(CliInstance)
  \/ ResolveSettles(CliInstance)
  \/ ResolveReturns(CliInstance)
  \/ Unsettled /\ StopAutopilot(CliInstance)

SpecStop == Init /\ [][NextStop]_vars

\* A ticket as earlier sessions have left it: k-th of the store, created at
\* time k, and pending, or started inside a repository and stopped, or closed
\* or failed by a run
LeftTickets(k) ==
  LET t == NewTicket(TicketIds[k], k)
  IN {t,
      [t EXCEPT !.status = STOPPED, !.startedAt = Date, !.stoppedAt = Date,
                !.branch = "copilot"],
      [t EXCEPT !.status = CLOSED, !.startedAt = Date, !.closedAt = Date,
                !.summary = SummaryHtml],
      [t EXCEPT !.status = ERROR, !.startedAt = Date, !.error = ErrCopilotFailed]}

\* stores of up to n such tickets
LeftStores(n) ==
  UNION {{st \in [1..m -> UNION {LeftTickets(k) : k \in 1..m}] :
            \A k \in 1..m : st[k] \in LeftTickets(k)} : m \in 0..n}

\* Autopilot runs, with stop requests, on a store that earlier sessions have
\* left with tickets in several states
InitLeft == InitWith(LeftStores(MaxTickets), BOOLEAN)

SpecLeft == InitLeft /\ [][Next]_vars

\* autopilotMode on an instance that is not running, when Storage.getAllTickets
\* throws (the file cannot be read or parsed): the flags are set, the
\* exception leaves the try block through the finally block
AutopilotReadThrows(c) ==
  /\ ~autopilotRunning[c]
  /\ interceptor' = LogInterceptorStop(LogInterceptorStart(interceptor))
  /\ Finally(c)
  /\ events' = [events EXCEPT ![c] = <<>>]
  /\ result' = [result EXCEPT ![c] = NoResult]
  /\ stopCalls' = [stopCalls EXCEPT ![c] = NoStopCalls]
  /\ rejected' = [rejected EXCEPT ![c] = FALSE]
  /\ processingSaw' = [processingSaw EXCEPT ![c] = Absent]
  /\ UNCHANGED <<tickets, worktrees, configVars, repo, call, httpResponse,
                 startVars, resolved>>

\* resolveTicketAutopilot acts on what resolve() returned and the loop goes
\* on to an update that the callback throws on (processing, cancelled or
\* completed, which are sent outside the try block of the iteration): the
\* exception leaves autopilotMode through the finally block
AutopilotCallbackThrows(c) ==
  /\ pc[c] = "resolved"
  /\ autopilotCallback[c]
  /\ LET k == i[c]
         t == pendingTickets[c][k]
         total == Len(pendingTickets[c])
         r == resolved.result
         st == IF resolved.thrown
               THEN UpdateTicket(tickets, t.id, [status |-> ERROR, error |-> r.error])
               ELSE StoreOutcome(tickets, t.id, r)
         cp == IF r.success
               THEN Append(completed[c],
                           [ticket |-> t.id, success |-> TRUE, summary |-> r.summary])
               ELSE completed[c]
         fl == IF r.success
               THEN failed[c]
               ELSE Append(failed[c],
                           [ticket |-> t.id, success |-> FALSE, error |-> r.error])
         ev == SendUpdate(c, events[c],
                          IF r.success THEN TicketCompletedEvent(t, k, total)
                          ELSE TicketFailedEvent(t, r.error, k, total))
         last == IF k + 1 <= total /\ ~ShouldBreak(c)
                 THEN ProcessingEvent(pendingTickets[c][k + 1], k + 1, total)
                 ELSE IF k + 1 <= total THEN CancelledEvent
                 ELSE CompletedEvent([completed |-> cp, failed |-> fl,
                                      cancelled |-> autopilotShouldStop[c]])
     IN /\ tickets' = st
        /\ events' = [events EXCEPT ![c] = SendUpdate(c, ev, last)]
        /\ interceptor' =
             LogInterceptorStop(IF last.type = "processing"
                                THEN SetTicketId(interceptor, last.ticket.id)
                                ELSE interceptor)
  /\ Finally(c)
  /\ stopCalls' = [stopCalls EXCEPT ![c] = NoStopCalls]
  /\ resolved' = NoResult
  /\ UNCHANGED <<worktrees, configVars, repo, call, httpResponse, startVars,
                 result, rejected, processingSaw>>

\* The runs of SpecStop, with the exceptions that can leave a call
NextThrows ==
  \/ NextStop
  \/ AutopilotReadThrows(CliInstance)
  \/ AutopilotCallbackThrows(CliInstance)

SpecThrows == Init /\ [][NextThrows]_vars

\* The commands of one process issued one after another on an empty store, as
\* the REPL of index.ts issues them: a command starts when the one before it
\* has returned, and the clock advances between two imports.  autopilotMode
\* is called without a callback.
InitCommands == InitWith({<<>>}, BOOLEAN)

NextCommands ==
  \/ \E k \in 1..MaxCommandTickets :
       /\ Quiet
       /\ Len(tickets) < MaxCommandTickets
       /\ Import(TicketIds[k], Len(tickets) + 1)
  \/ \E k \in 1..MaxCommandTickets : Quiet /\ Start(TicketIds[k])
  \/ StartBranching
  \/ AnalysisSettles
  \/ StartAnalysis
  \/ \E k \in 1..MaxCommandTickets : Quiet /\ Stop(TicketIds[k])
  \/ Quiet /\ AutopilotBegin(CliInstance, FALSE)
  \/ Unsettled /\ AutopilotRejected(CliInstance)
  \/ PrepareWorktree(CliInstance)
  \/ ResolveSettles(CliInstance)
  \/ ResolveReturns(CliInstance)
  \/ Unsettled /\ autopilotRunning[CliInstance] /\ StopAutopilot(CliInstance)

SpecCommands == InitCommands /\ [][NextCommands]_vars

\* The commands of one process that write the store, issued one after another
\* on an empty store: import, start, stop and autopilot runs that no stop
\* request and no second call disturbs
NextWriters ==
  \/ \E k \in 1..MaxCommandTickets :
       /\ Quiet
       /\ Len(tickets) < MaxCommandTickets
       /\ Import(TicketIds[k], Len(tickets) + 1)
  \/ \E k \in 1..MaxCommandTickets : Quiet /\ Start(TicketIds[k])
  \/ StartBranching
  \/ AnalysisSettles
  \/ StartAnalysis
  \/ \E k \in 1..MaxCommandTickets : Quiet /\ Stop(TicketIds[k])
  \/ Quiet /\ AutopilotBegin(CliInstance, FALSE)
  \/ PrepareWorktree(CliInstance)
  \/ ResolveSettles(CliInstance)
  \/ ResolveReturns(CliInstance)

SpecWriters == InitCommands /\ [][NextWriters]_vars

\* The commands of NextWriters with delete among them: a ticket is deleted
\* when the command before has returned
NextLifecycle ==
  \/ NextWriters
  \/ \E k \in 1..MaxCommandTickets : Quiet /\ Delete(TicketIds[k])

SpecLifecycle == InitCommands /\ [][NextLifecycle]_vars

\* the clock reads now: no ticket of the store was created later
ClockAt(now) == \A k \in DOMAIN tickets : tickets[k].createdAt <= now

\* Sessions that create, import and delete tickets on an empty store
NextStore ==
  \/ \E k \in 1..MaxStoreTickets, now \in 1..MaxTime :
       /\ Len(tickets) < MaxStoreTickets
       /\ ClockAt(now)
       /\ Create(TicketIds[k], now)
  \/ \E k \in 1..MaxStoreTickets, now \in 1..MaxTime :
       /\ Len(tickets) < MaxStoreTickets
       /\ ClockAt(now)
       /\ Import(TicketIds[k], now)
  \/ \E k \in 1..MaxStoreTickets : Delete(TicketIds[k])

SpecStore == InitCommands /\ [][NextStore]_vars

\* POST /api/tickets/autopilot: the handler constructs its own Commands
\* instance c, asks it for its status, counts the pending tickets and calls
\* autopilotMode on it without awaiting the run
PostAutopilot(c) ==
  /\ pc[c] = "new"
  /\ IF autopilotRunning[c]
     THEN AutopilotRejected(c)
     ELSE IF Len(FilterPending(tickets)) = 0
          THEN /\ pc' = [pc EXCEPT ![c] = "idle"]
               /\ UNCHANGED <<tickets, worktrees, configVars, repo,
                              interceptor, call, httpResponse, startVars,
                              autopilotRunning, autopilotShouldStop,
                              autopilotCallback, pendingTickets, i,
                              worktreeMap, completed, failed, events, result,
                              rejected, resolved, processingSaw, stopCalls>>
          ELSE AutopilotBegin(c, TRUE)

\* the routes of the tickets router in the order they are registered, a path
\* being the segments after /api/tickets
Routes ==
  << [method |-> "GET", path |-> <<>>],
     [method |-> "POST", path |-> <<>>],
     [method |-> "POST", path |-> <<"import">>],
     [method |-> "GET", path |-> <<":id", "status">>],
     [method |-> "POST", path |-> <<":id", "start">>],
     [method |-> "POST", path |-> <<":id", "stop">>],
     [method |-> "PATCH", path |-> <<":id">>],
     [method |-> "DELETE", path |-> <<":id">>],
     [method |-> "GET", path |-> <<":id", "summary">>],
     [method |-> "POST", path |-> <<"autopilot">>],
     [method |-> "POST", path |-> <<"autopilot", "stop">>],
     [method |-> "GET", path |-> <<"autopilot", "status">>] >>

\* a route matches a request: the method, and segment by segment the path,
\* where a parameter matches any segment
Matches(route, method, path) ==
  /\ route.method = method
  /\ Len(route.path) = Len(path)
  /\ \A k \in DOMAIN path : route.path[k] = ":id" \/ route.path[k] = path[k]

\* the router hands a request to the first route that matches it
Dispatch(method, path) ==
  CHOOSE k \in DOMAIN Routes :
    /\ Matches(Routes[k], method, path)
    /\ \A j \in 1..(k - 1) : ~Matches(Routes[j], method, path)

\* getAutopilotStatus of a Commands instance that a handler has just
\* constructed
FreshStatus == [running |-> FALSE, shouldStop |-> FALSE]

NotFound(request) ==
  [request |-> request, code |-> 404,
   body |-> [success |-> FALSE, error |-> "Ticket not found"]]

\* GET /api/tickets/autopilot/status, by the handler the router picks: that
\* of /:id/status looks the ticket up, that of /autopilot/status asks a new
\* Commands instance
GetAutopilotStatus ==
  /\ LET path == <<"autopilot", "status">>
         route == Routes[Dispatch("GET", path)]
     IN httpResponse' =
          IF route.path[1] = ":id"
          THEN IF HasTicket(tickets, path[1])
               THEN [request |-> "status", code |-> 200,
                     body |-> [success |-> TRUE,
                               ticket |-> GetTicket(tickets, path[1])]]
               ELSE NotFound("status")
          ELSE [request |-> "status", code |-> 200,
                body |-> [success |-> TRUE, status |-> FreshStatus]]
  /\ UNCHANGED <<tickets, worktrees, configVars, repo, interceptor, call,
                 runVars, startVars, resolved>>

\* POST /api/tickets/autopilot/stop, by the handler the router picks: that of
\* /:id/stop looks the ticket up and calls Commands.stop, that of
\* /autopilot/stop calls stopAutopilot on a new Commands instance
PostAutopilotStop ==
  /\ LET path == <<"autopilot", "stop">>
         route == Routes[Dispatch("POST", path)]
     IN IF route.path[1] = ":id"
        THEN IF HasTicket(tickets, path[1])
             THEN LET t == GetTicket(tickets, path[1])
                      st == IF t.status = WORKING
                            THEN UpdateTicket(tickets, t.id,
                                              [status |-> STOPPED,
                                               stoppedAt |-> Date])
                            ELSE tickets
                  IN /\ tickets' = st
                     /\ httpResponse' =
                          [request |-> "stop", code |-> 200,
                           body |-> [success |-> TRUE,
                                     ticket |-> GetTicket(st, path[1])]]
             ELSE /\ httpResponse' = NotFound("stop")
                  /\ UNCHANGED tickets
        ELSE /\ httpResponse' = [request |-> "stop", code |-> 200,
                                 body |-> [success |-> TRUE]]
             /\ UNCHANGED tickets
  /\ UNCHANGED <<worktrees, configVars, repo, interceptor, call, runVars,
                 startVars, resolved>>

\* The web server: requests to run autopilot, to stop it and for its status
\* arrive while earlier runs are suspended
InitWeb == InitWith(InitialStores(MaxWebTickets), BOOLEAN)

NextWeb ==
  \/ \E c \in RequestInstances : Unsettled /\ PostAutopilot(c)
  \/ Unsettled /\ GetAutopilotStatus
  \/ Unsettled /\ PostAutopilotStop
  \/ \E c \in RequestInstances : Unsettled /\ PrepareWorktree(c)
  \/ \E c \in RequestInstances : ResolveSettles(c)
  \/ \E c \in RequestInstances : ResolveReturns(c)

SpecWeb == InitWeb /\ [][NextWeb]_vars

\* ------------------------------------------- direct calls of the resolver
\* The calls resolve() makes to its collaborators, in order, and the message
\* of the error that ends its try block (Absent when the try block returns)
Course(id, existingWorktree, cleanupOnError, env, wts) ==
  LET invalid == ValidateConfiguration(env)
      created == CreateWorktree(id, env.git, wts)
      acquire == IF existingWorktree # Absent THEN <<>> ELSE <<"createWorktree">>
      path == IF existingWorktree # Absent THEN existingWorktree ELSE id
      agent == acquire \o <<"resolveTicket">>
      status == agent \o <<"status">>
      commit == status \o <<"getWorktreeDiff">>
                  \o (IF env.sdk THEN <<"generateCommitMessage">> ELSE <<>>)
                  \o <<"commitInWorktree">>
      branch == commit
                  \o (IF env.sdk THEN <<"generateTicketSummary">> ELSE <<>>)
                  \o <<"createTestBranch">>
      try ==
        IF invalid # Absent
        THEN [steps |-> <<>>, raised |-> invalid, worktreePath |-> Absent]
        ELSE IF existingWorktree = Absent /\ ~created.ok
        THEN [steps |-> acquire, raised |-> created.error, worktreePath |-> Absent]
        ELSE IF ~env.agent
        THEN [steps |-> agent, raised |-> ErrCopilotFailed, worktreePath |-> path]
        ELSE IF ~env.status
        THEN [steps |-> status, raised |-> ErrGit, worktreePath |-> path]
        ELSE IF ~env.changed
        THEN [steps |-> status, raised |-> Absent, worktreePath |-> path]
        ELSE IF ~env.commit
        THEN [steps |-> commit, raised |-> ErrGit, worktreePath |-> path]
        ELSE IF ~env.test
        THEN [steps |-> branch, raised |-> ErrGit, worktreePath |-> path]
        ELSE [steps |-> branch, raised |-> Absent, worktreePath |-> path]
      cleanup == IF try.raised # Absent /\ cleanupOnError /\ try.worktreePath # Absent
                 THEN <<"removeWorktree">>
                 ELSE <<>>
  IN [steps |-> try.steps \o cleanup, raised |-> try.raised]

\* new TicketResolverCLI(ticket, options).resolve(), called on its own: the
\* caller passes the worktree of the ticket that worktreeExists reported to
\* it, or none
ResolveCall(id, existingWorktree, cleanupOnError, env) ==
  /\ env.resolver
  /\ existingWorktree \in {Absent, WorktreeExists(id, worktrees)}
  /\ LET out == Resolve(id, existingWorktree, cleanupOnError, env, worktrees)
         course == Course(id, existingWorktree, cleanupOnError, env, worktrees)
     IN /\ worktrees' = out.worktrees
        /\ call' = [op |-> "resolve", id |-> id,
                    existingWorktree |-> existingWorktree,
                    cleanupOnError |-> cleanupOnError, env |-> env,
                    before |-> worktrees, steps |-> course.steps,
                    raised |-> course.raised, returned |-> Returned(out)]
  /\ UNCHANGED <<tickets, configVars, repo, interceptor, httpResponse, runVars,
                 startVars, resolved>>

\* the last call was a successful createWorktree(id) and the directory it
\* made is still there
JustCreated(id) ==
  /\ call # NoResult
  /\ call.op = "createWorktree"
  /\ call.id = id
  /\ call.ok
  /\ id \in worktrees

\* GitManager.createWorktree(id), called on its own.  gitOk: its git commands
\* succeed on a path that is free; again: it repeats a call that succeeded
CreateWorktreeCall(id, gitOk) ==
  /\ LET created == CreateWorktree(id, gitOk, worktrees)
     IN /\ worktrees' = created.worktrees
        /\ call' = [op |-> "createWorktree", id |-> id, gitOk |-> gitOk,
                    again |-> JustCreated(id), before |-> worktrees,
                    git |-> automationPath /\ baseRepositoryPath,
                    ok |-> created.ok, error |-> created.error,
                    path |-> IF created.ok THEN id ELSE Absent]
  /\ UNCHANGED <<tickets, configVars, repo, interceptor, httpResponse, runVars,
                 startVars, resolved>>

\* a removal that gives up when the git command fails
ForcedRemovalNoFallback(id, gitOk, wts) ==
  IF gitOk THEN wts \ {id} ELSE wts

\* the try and catch of GitManager.removeWorktree: the forced git worktree
\* remove and, when it fails (gitOk is false), the recursive deletion of the
\* directory if it exists
ForcedRemoval(id, gitOk, wts) ==
  IF gitOk THEN wts \ {id}
  ELSE IF id \in wts THEN wts \ {id} ELSE wts

\* GitManager.removeWorktree(path of id), called on its own: the guard on the
\* base repository path, then the removal
RemoveWorktreeCall(id, gitOk) ==
  /\ LET thrown == ~RemoveWorktree(id, worktrees).ok
     IN /\ worktrees' = IF thrown THEN worktrees
                        ELSE ForcedRemoval(id, gitOk, worktrees)
        /\ call' = [op |-> "removeWorktree", id |-> id, gitOk |-> gitOk,
                    before |-> worktrees, thrown |-> thrown]
  /\ UNCHANGED <<tickets, configVars, repo, interceptor, httpResponse, runVars,
                 startVars, resolved>>

\* Sessions that call the resolver and the worktree operations of GitManager
\* one after another, under each configuration
NextResolve ==
  \/ \E id \in WorktreeIds, existingWorktree \in WorktreeIds \cup {Absent},
        cleanupOnError \in BOOLEAN, env \in Envs :
       ResolveCall(id, existingWorktree, cleanupOnError, env)
  \/ \E id \in WorktreeIds, gitOk \in BOOLEAN : CreateWorktreeCall(id, gitOk)
  \/ \E id \in WorktreeIds, gitOk \in BOOLEAN : RemoveWorktreeCall(id, gitOk)

SpecResolve == InitCommands /\ [][NextResolve]_vars

\* ------------------------------------------------- description updates
\* the descriptions a request may carry: none, or a new text
EditedDescriptions == {"", "edited"}

\* PATCH /api/tickets/:id: 400 without a description, 404 without the ticket,
\* else Storage.updateTicket with the description and nothing else
PatchTicket(id, description) ==
  /\ LET found == HasTicket(tickets, id)
         code == IF description = "" THEN 400 ELSE IF ~found THEN 404 ELSE 200
     IN /\ tickets' = IF code = 200
                      THEN UpdateTicket(tickets, id, [description |-> description])
                      ELSE tickets
        /\ call' = [op |-> "PATCH", id |-> id, description |-> description,
                    code |-> code,
                    found |-> IF found THEN GetTicket(tickets, id) ELSE NoResult]
  /\ UNCHANGED <<worktrees, configVars, repo, interceptor, httpResponse,
                 runVars, startVars, resolved>>

\* the update-ticket handler of the desktop shell: the description is set on
\* the object Storage.getTicket parsed from the file, and the file is written
\* back from a second reading of it
IpcUpdateTicket(id, description) ==
  /\ LET found == HasTicket(tickets, id)
     IN call' = [op |-> "update-ticket", id |-> id, description |-> description,
                 code |-> IF found THEN 200 ELSE 404,
                 found |-> IF found THEN GetTicket(tickets, id) ELSE NoResult]
  /\ UNCHANGED <<tickets, worktrees, configVars, repo, interceptor,
                 httpResponse, runVars, startVars, resolved>>

\* Sessions of import, start and stop on an empty store, with description
\* updates arriving from the web interface and the desktop shell
NextEdit ==
  \/ \E k \in 1..MaxCommandTickets :
       /\ Quiet
       /\ Len(tickets) < MaxCommandTickets
       /\ Import(TicketIds[k], Len(tickets) + 1)
  \/ \E k \in 1..MaxCommandTickets : Quiet /\ Start(TicketIds[k])
  \/ StartBranching
  \/ AnalysisSettles
  \/ StartAnalysis
  \/ \E k \in 1..MaxCommandTickets : Quiet /\ Stop(TicketIds[k])
  \/ \E k \in 1..MaxCommandTickets, description \in EditedDescriptions :
       Unsettled /\ PatchTicket(TicketIds[k], description)
  \/ \E k \in 1..MaxCommandTickets, description \in EditedDescriptions :
       Unsettled /\ IpcUpdateTicket(TicketIds[k], description)

SpecEdit == InitCommands /\ [][NextEdit]_vars

\* ------------------------------------------------------ prompt of the agent
\* A text is a sequence of pieces: a placeholder is a piece of its own, and so
\* are a ticket id and a ticket description.
PlaceholderId == "${ID}"
PlaceholderDescription == "${DESCRIPTION}"

\* DEFAULT_TICKET_RESOLUTION_PROMPT
DefaultTicketResolutionPrompt ==
  <<"You are working on a repository. Fix the following issue in the code. Issue Identifier:",
    PlaceholderId, "Issue Description:", PlaceholderDescription,
    "Rules: Only modify what's necessary ...">>

\* the pieces a configured template is made of, and the values of
\* config.ticketResolutionPrompt (the empty text stands for a missing one too)
TemplatePieces == {"Issue: ", PlaceholderId, PlaceholderDescription}
Templates == UNION {[1..n -> TemplatePieces] : n \in 0..MaxTemplate}

\* the descriptions of the tickets a prompt is built for
PromptDescriptions ==
  {"Fix the bug in the login component",
   "Fix bug with \"quotes\" and $variables & symbols"}

\* ConfigManager.getTicketResolutionPrompt: the configured template, or the
\* default when none is configured or the configured one is empty
GetTicketResolutionPrompt(configured) ==
  IF configured # <<>> THEN configured ELSE DefaultTicketResolutionPrompt

\* CopilotCLI.buildPrompt: a template literal of its own with the id and the
\* description of the ticket interpolated; the configuration is not read
BuildPrompt(ticket) ==
  <<"You are working on a repository. Corrige el siguiente issue en el codigo. Identificador del issue:",
    ticket.id, "Descripcion del issue:", ticket.description,
    "Reglas: Solo modificar lo necesario ...">>

\* CopilotCLI.buildPrompt(ticket), called under the configured template
BuildPromptCall(id, description, configured) ==
  /\ LET ticket == [NewTicket(id, 1) EXCEPT !.description = description]
     IN call' = [op |-> "buildPrompt", ticket |-> ticket, configured |-> configured,
                 prompt |-> BuildPrompt(ticket)]
  /\ UNCHANGED <<tickets, worktrees, configVars, repo, interceptor,
                 httpResponse, runVars, startVars, resolved>>

\* Prompts built one after another, for each ticket and each configuration of
\* the template
NextPrompt ==
  \E id \in WorktreeIds, description \in PromptDescriptions,
     configured \in Templates :
    BuildPromptCall(id, description, configured)

SpecPrompt == InitCommands /\ [][NextPrompt]_vars

\* ------------------------------------------------ deletion with its cleanup
\* how the removal of a worktree directory can go: git removes it, git fails
\* and the recursive deletion removes it, or git fails and the recursive
\* deletion throws
Removals == {"git", "manual", "throws"}

\* The git cleanup of Commands.delete, inside its try block: the calls made,
\* whether one of them threw into the catch block, and the worktrees left.
\* copilotBranch, testBranch: branchExistsInBase or branchExists finds the
\* branch (both answer false when git fails); the two deleteBranch calls catch
\* their own failures.
DeleteCleanup(id, removal, copilotBranch, testBranch, wts) ==
  LET worktreePath == WorktreeExists(id, wts)
      thrown == worktreePath # Absent
                  /\ (~RemoveWorktree(id, wts).ok \/ removal = "throws")
      branches ==
        <<"branchExists copilot">>
          \o (IF copilotBranch THEN <<"deleteBranch copilot">> ELSE <<>>)
          \o <<"branchExists test">>
          \o (IF testBranch THEN <<"deleteBranch test">> ELSE <<>>)
  IN [thrown |-> thrown,
      steps |-> <<"worktreeExists">>
                  \o (IF worktreePath # Absent THEN <<"removeWorktree">> ELSE <<>>)
                  \o (IF thrown THEN <<>> ELSE branches),
      worktrees |-> IF worktreePath = Absent \/ thrown THEN wts
                    ELSE ForcedRemoval(id, removal = "git", wts)]

\* a deletion that gives up when the cleanup has thrown
DeleteUnlessThrown(store, id, thrown) ==
  IF thrown THEN store ELSE DeleteTicket(store, id)

\* the statement after the try and catch of Commands.delete
DeleteAfterCleanup(store, id, thrown) == DeleteTicket(store, id)

\* Commands.delete(id), called on its own: nothing happens without the ticket
\* or without the confirmation; else the cleanup, then the record is deleted
DeleteCall(id, confirmed, removal, copilotBranch, testBranch) ==
  /\ LET found == HasTicket(tickets, id)
         cleanup == DeleteCleanup(id, removal, copilotBranch, testBranch, worktrees)
     IN IF found /\ confirmed
        THEN /\ worktrees' = cleanup.worktrees
             /\ tickets' = DeleteAfterCleanup(tickets, GetTicket(tickets, id).id,
                                              cleanup.thrown)
             /\ call' = [op |-> "delete", id |-> id, found |-> found,
                         confirmed |-> confirmed, removal |-> removal,
                         before |-> tickets, worktreesBefore |-> worktrees,
                         steps |-> cleanup.steps, thrown |-> cleanup.thrown]
        ELSE /\ UNCHANGED <<tickets, worktrees>>
             /\ call' = [op |-> "delete", id |-> id, found |-> found,
                         confirmed |-> confirmed, removal |-> removal,
                         before |-> tickets, worktreesBefore |-> worktrees,
                         steps |-> <<>>, thrown |-> FALSE]
  /\ UNCHANGED <<configVars, repo, interceptor, httpResponse, runVars,
                 startVars, resolved>>

\* Sessions that create worktrees and delete tickets, on stores of pending
\* tickets and under each configuration
InitDelete == InitWith(InitialStores(MaxWorktrees), BOOLEAN)

NextDelete ==
  \/ \E id \in WorktreeIds, gitOk \in BOOLEAN : CreateWorktreeCall(id, gitOk)
  \/ \E id \in WorktreeIds, confirmed \in BOOLEAN, removal \in Removals,
        copilotBranch \in BOOLEAN, testBranch \in BOOLEAN :
       DeleteCall(id, confirmed, removal, copilotBranch, testBranch)

SpecDelete == InitDelete /\ [][NextDelete]_vars

\* ------------------------------------------------ calls of createTestBranch
\* GitManager.createTestBranch(id), called on its own
CreateTestBranchCall(id, gitOk) ==
  /\ LET out == CreateTestBranch(id, repo, gitOk)
     IN /\ repo' = out.repo
        /\ call' = [op |-> "createTestBranch", id |-> id, gitOk |-> gitOk,
                    before |-> repo, ok |-> out.ok, error |-> out.error,
                    branch |-> out.branch]
  /\ UNCHANGED <<tickets, worktrees, configVars, interceptor, httpResponse,
                 runVars, startVars, resolved>>

\* Calls of createTestBranch one after another, the first on a repository as
\* earlier sessions and their commits may have left it
InitGit == InitIn({<<>>}, BOOLEAN, Repos)

NextGit ==
  \E id \in BranchIds, gitOk \in GitOutcomes : CreateTestBranchCall(id, gitOk)

SpecGit == InitGit /\ [][NextGit]_vars

\* ------------------------------------ requests beside a run of the server
\* the Commands instance of the POST /api/tickets/autopilot request
BatchInstance == "req1"

\* the ids of the tickets that the run on instance c has selected and not yet
\* taken up
Waiting(c) ==
  IF ~autopilotRunning[c] THEN {}
  ELSE {pendingTickets[c][k].id :
          k \in {j \in DOMAIN pendingTickets[c] : pc[c] = "preparing" \/ j > i[c]}}

\* The web server with one autopilot run: POST /:id/start (which runs
\* Commands.start in the background), POST /:id/stop and DELETE /:id arrive
\* for tickets that wait for their turn while the run is suspended at an
\* await, and each handler runs up to its own next await
NextInterleaved ==
  \/ Unsettled /\ PostAutopilot(BatchInstance)
  \/ Unsettled /\ PrepareWorktree(BatchInstance)
  \/ ResolveSettles(BatchInstance)
  \/ ResolveReturns(BatchInstance)
  \/ \E id \in Waiting(BatchInstance) : Unsettled /\ Start(id)
  \/ Unsettled /\ StartBranching
  \/ AnalysisSettles
  \/ StartAnalysis
  \/ \E id \in Waiting(BatchInstance) : Unsettled /\ Stop(id)
  \/ \E id \in Waiting(BatchInstance) : Unsettled /\ Delete(id)

SpecInterleaved == InitWeb /\ [][NextInterleaved]_vars

\* ------------------------------------------- stop-ticket of the desktop shell
\* the stop-ticket handler of the desktop shell: status and stoppedAt are set
\* on the object Storage.getTicket parsed from the file, the file is written
\* back from a second reading of it, and the object is returned
IpcStopTicket(id) ==
  /\ LET found == HasTicket(tickets, id)
     IN call' = [op |-> "stop-ticket", id |-> id,
                 code |-> IF found THEN 200 ELSE 404,
                 found |-> IF found THEN GetTicket(tickets, id) ELSE NoResult,
                 ticket |-> IF found
                            THEN [GetTicket(tickets, id) EXCEPT
                                    !.status = STOPPED, !.stoppedAt = Date]
                            ELSE NoResult]
  /\ UNCHANGED <<tickets, worktrees, configVars, repo, interceptor,
                 httpResponse, runVars, startVars, resolved>>

\* The sessions of NextEdit with stop requests from the desktop shell
NextIpc ==
  \/ NextEdit
  \/ \E k \in 1..MaxCommandTickets : Unsettled /\ IpcStopTicket(TicketIds[k])

SpecIpc == InitCommands /\ [][NextIpc]_vars

\* ------------------------------------------------ runs whose calls return
\* the runs of Spec on the stores of up to MaxFairTickets tickets
InitFair == InitWith(InitialStores(MaxFairTickets), BOOLEAN)

\* a step of the run: a git call of the preparation loop or a call of
\* resolve() settles, or the continuation of a settled call is run
RunStep ==
  \/ PrepareWorktree(CliInstance)
  \/ ResolveSettles(CliInstance)
  \/ ResolveReturns(CliInstance)

\* every call the run is suspended at returns, and its continuation is run
Fairness == WF_vars(RunStep)

SpecFair == InitFair /\ [][Next]_vars /\ Fairness

\* ---------------------------------------------------- the ui command
\* Commands.ui has started the web server and then log interception
InitUi ==
  InitAll(InitialStores(MaxWebTickets), BOOLEAN, {BareRepo},
          {LogInterceptorStart(NotIntercepting)})

\* The web server of the ui command: the requests of NextWeb arrive in a
\* process whose console output is intercepted
SpecUi == InitUi /\ [][NextWeb]_vars

\* --------------------------------------------------------------- claims
\* the status changes of the ticket lifecycle
AllowedEdges ==
  { <<PENDING, BRANCHING>>, <<PENDING, WORKING>>,
    <<BRANCHING, WORKING>>, <<BRANCHING, ERROR>>,
    <<WORKING, STOPPED>>, <<WORKING, CLOSED>>, <<WORKING, ERROR>>,
    <<STOPPED, WORKING>>, <<STOPPED, CLOSED>> }

\* C1: every change of a ticket's status made by create, interactive start,
\* interactive stop or an autopilot run follows an edge of the lifecycle, and
\* no change leaves closed or error.
LifecycleEdges ==
  [][\A k \in DOMAIN tickets :
       tickets'[k].status # tickets[k].status
         => <<tickets[k].status, tickets'[k].status>> \in AllowedEdges]_vars


\* C2: at most one autopilot run is in progress in the process; a request to
\* run autopilot that arrives while a run is in progress, the HTTP route
\* included, is rejected and starts no second run.
AtMostOneRun == Cardinality({c \in Instances : autopilotRunning[c]}) <= 1

\* seq lists exactly the pending tickets of store, by ascending createdAt,
\* tickets of equal createdAt in the order the store holds them
SelectedInOrder(store, seq) ==
  /\ Len(seq) = Cardinality({k \in DOMAIN store : store[k].status = PENDING})
  /\ \A j \in DOMAIN seq :
       \E k \in DOMAIN store : store[k] = seq[j] /\ store[k].status = PENDING
  /\ \A j, l \in DOMAIN seq :
       j < l => \E k, m \in DOMAIN store :
                  /\ store[k] = seq[j]
                  /\ store[m] = seq[l]
                  /\ \/ store[k].createdAt < store[m].createdAt
                     \/ store[k].createdAt = store[m].createdAt /\ k < m

\* C3: a run selects exactly the tickets that are pending when it starts and
\* processes them by ascending createdAt, ties in store order: the call
\* selects that sequence, and the tickets set to working one after another
\* are its first, second, ... member.
SelectionOrder ==
  [][/\ ~autopilotRunning[CliInstance]
        => SelectedInOrder(tickets, pendingTickets'[CliInstance])
     /\ (tickets' # tickets /\ pc'[CliInstance] = "resolving")
        => LET k == i'[CliInstance]
               t == pendingTickets[CliInstance][k]
           IN /\ k = IF pc[CliInstance] = "resolved" THEN i[CliInstance] + 1 ELSE 1
              /\ tickets'[FindIndex(tickets, t.id)].status = WORKING
              /\ tickets[FindIndex(tickets, t.id)].status = PENDING]_vars

\* a run over two tickets, the first of the store created after the second,
\* has reached its second ticket, which is the first of the store
SelectionOrderWitness ==
  /\ pc[CliInstance] = "resolving"
  /\ i[CliInstance] = 2
  /\ pendingTickets[CliInstance][2].id = tickets[1].id
  /\ pendingTickets[CliInstance][1].createdAt < pendingTickets[CliInstance][2].createdAt

\* how many entries of the list seq are about the ticket id
CountIn(seq, id) == Cardinality({x \in DOMAIN seq : seq[x].ticket = id})

\* the tickets of the selection after position k are pending in store
RestPending(store, selected, k) ==
  \A j \in DOMAIN selected :
    j > k => store[FindIndex(store, selected[j].id)].status = PENDING

\* C4: once a stop is requested while ticket k of n is being processed, the
\* run goes on to the completion of ticket k and ends with it: tickets 1..k
\* are each recorded once in completed or failed, and tickets k+1..n are
\* pending and were never set to working.  A stop requested during
\* pre-provisioning leaves all n tickets pending and nothing recorded.
StopAfterCurrent ==
  [][autopilotShouldStop[CliInstance] =>
       LET selected == pendingTickets[CliInstance]
           k == IF pc[CliInstance] = "preparing" THEN 0 ELSE i[CliInstance]
           res == result'[CliInstance]
       IN /\ RestPending(tickets, selected, k)
          /\ RestPending(tickets', selected, k)
          /\ pc[CliInstance] = "resolving" => pc'[CliInstance] = "resolved"
          /\ pc[CliInstance] = "resolved" => pc'[CliInstance] = "idle"
          /\ pc'[CliInstance] = "idle" =>
               /\ res.cancelled
               /\ Len(res.completed) + Len(res.failed) = k
               /\ \A j \in DOMAIN selected :
                    CountIn(res.completed, selected[j].id)
                      + CountIn(res.failed, selected[j].id)
                    = IF j <= k THEN 1 ELSE 0
               /\ \A j \in 1..k :
                    tickets'[FindIndex(tickets, selected[j].id)].status
                      \in {CLOSED, ERROR}]_vars

\* a run of several tickets, stopped while its first ticket was processed,
\* has returned
StopAfterCurrentWitness ==
  /\ ~autopilotRunning[CliInstance]
  /\ "cancelled" \in DOMAIN result[CliInstance]
  /\ result[CliInstance].cancelled
  /\ Len(result[CliInstance].completed) + Len(result[CliInstance].failed) = 1
  /\ \E k \in DOMAIN tickets : tickets[k].status = PENDING

\* the store index of the ticket a run of CliInstance is at
Current == FindIndex(tickets, pendingTickets[CliInstance][i[CliInstance]].id)

\* the failed list of the run of CliInstance after a step, also when the step
\* ends the run and the list is handed out in the result
FailedAfter == IF pc'[CliInstance] = "idle" THEN result'[CliInstance].failed
               ELSE failed'[CliInstance]

\* the completed list of the run of CliInstance after a step, likewise
CompletedAfter == IF pc'[CliInstance] = "idle" THEN result'[CliInstance].completed
                  ELSE completed'[CliInstance]

OutcomeStored ==
  [][pc[CliInstance] = "resolved" =>
       LET r == resolved.result
           new == tickets'[Current]
       IN /\ (r.success /\ r.summary # Absent) =>
               /\ new.status = CLOSED
               /\ new.closedAt = Date
               /\ new.summary = r.summary
          /\ (r.success /\ r.summary = Absent) =>
               /\ new.status = CLOSED
               /\ new.closedAt = Date
          /\ ~r.success =>
               /\ new.status = ERROR
               /\ new.error = r.error
               /\ r.error # Absent
          /\ resolved.thrown => ~r.success]_vars

\* the store holds a ticket closed with its summary and a ticket in error with
\* the message of an exception of the resolver
OutcomeStoredWitness ==
  /\ \E k \in DOMAIN tickets :
       /\ tickets[k].status = CLOSED
       /\ tickets[k].closedAt = Date
       /\ tickets[k].summary = SummaryHtml
  /\ \E k \in DOMAIN tickets :
       tickets[k].status = ERROR /\ tickets[k].error = ErrSimpleGit

\* C7: a ticket's failure does not end the run: after a failure the loop goes
\* on to the next ticket unless a stop was requested; and a run that is not
\* cancelled returns a result in which every selected ticket is listed once,
\* in completed or in failed, so that the two lengths add up to the number of
\* selected tickets.
FailureDoesNotAbort ==
  [][LET selected == pendingTickets[CliInstance]
         res == result'[CliInstance]
     IN /\ ( /\ pc[CliInstance] = "resolved"
             /\ ~resolved.result.success
             /\ ~autopilotShouldStop[CliInstance]
             /\ i[CliInstance] < Len(selected) )
           => /\ pc'[CliInstance] = "resolving"
              /\ i'[CliInstance] = i[CliInstance] + 1
        /\ (autopilotRunning[CliInstance] /\ ~autopilotRunning'[CliInstance])
           => /\ DOMAIN res = {"completed", "failed", "cancelled"}
              /\ ~res.cancelled =>
                   /\ Len(res.completed) + Len(res.failed) = Len(selected)
                   /\ \A j \in DOMAIN selected :
                        CountIn(res.completed, selected[j].id)
                          + CountIn(res.failed, selected[j].id) = 1]_vars

\* a run that was not cancelled has returned: its first ticket failed and a
\* later one completed
FailureDoesNotAbortWitness ==
  /\ ~autopilotRunning[CliInstance]
  /\ "cancelled" \in DOMAIN result[CliInstance]
  /\ ~result[CliInstance].cancelled
  /\ Len(result[CliInstance].failed) = 1
  /\ Len(result[CliInstance].completed) = 1
  /\ result[CliInstance].failed[1].ticket = events[CliInstance][1].tickets[1].id

\* C8: a ticket whose resolution fails ends with status error and a
\* non-empty error string, in an autopilot run and in an interactive start.
FailedTicketInError ==
  [][/\ (pc[CliInstance] = "resolved" /\ ~resolved.result.success)
        => /\ tickets'[Current].status = ERROR
           /\ tickets'[Current].error \notin {Absent, ""}
     /\ (startPc = "analyzed" /\ ~resolved.result.success)
        => /\ tickets'[FindIndex(tickets, startTicket.id)].status = ERROR
           /\ tickets'[FindIndex(tickets, startTicket.id)].error
                \notin {Absent, ""}]_vars

\* the types of the events that close the processing of a ticket
TerminalTypes == {"ticket_completed", "ticket_failed"}

\* the events of a run so far follow the order of a run: started; for each
\* ticket of the started event in turn a processing event and, next to it,
\* its ticket_completed or ticket_failed; cancelled at most once, right
\* before completed; completed once, at the end
EventOrder(ev, running) ==
  /\ ev[1].type = "started"
  /\ \A p \in DOMAIN ev :
       /\ ev[p].type \in {"started", "processing", "cancelled", "completed"}
                            \cup TerminalTypes
       /\ ev[p].type = "started" => p = 1
       /\ ev[p].type = "processing" =>
            /\ p % 2 = 0
            /\ p \div 2 \in DOMAIN ev[1].tickets
            /\ ev[p].ticket = ev[1].tickets[p \div 2]
            /\ p < Len(ev) => ev[p + 1].type \in TerminalTypes
            /\ p = Len(ev) => running
       /\ ev[p].type \in TerminalTypes =>
            /\ ev[p - 1].type = "processing"
            /\ ev[p - 1].ticket = ev[p].ticket
       /\ ev[p].type = "cancelled" =>
            /\ p = Len(ev) - 1
            /\ ev[p - 1].type \in {"started"} \cup TerminalTypes
       /\ ev[p].type = "completed" =>
            /\ p = Len(ev)
            /\ ev[p - 1].type \in {"cancelled"} \cup TerminalTypes
  /\ ev[Len(ev)].type = "completed" <=> ~running

\* C9: the events of a run of n >= 1 tickets are: started; for each processed
\* ticket in selection order, processing and right after it one
\* ticket_completed or ticket_failed of the same ticket; then at most one
\* cancelled; then one completed, which is last.
EventSequence ==
  (events[CliInstance] # <<>> /\ events[CliInstance] # <<NoTicketsEvent>>)
    => EventOrder(events[CliInstance], autopilotRunning[CliInstance])

\* a run stopped during its first ticket has delivered its five events
EventSequenceWitness ==
  /\ Len(events[CliInstance]) = 5
  /\ events[CliInstance][3].type = "ticket_failed"
  /\ events[CliInstance][4].type = "cancelled"
  /\ events[CliInstance][5].type = "completed"

\* the types of the events that carry the counters current and total
CounterTypes == {"processing"} \cup TerminalTypes

\* C10: in the events of a run, current starts at 1, never decreases from one
\* counting event to a later one, never exceeds total and is the same in the
\* processing event of a ticket and its terminal event; total is the number
\* of tickets the started event lists.
EventCounters ==
  LET ev == events[CliInstance]
  IN (ev # <<>> /\ ev # <<NoTicketsEvent>>) =>
       /\ ev[1].total = Len(ev[1].tickets)
       /\ \A p \in DOMAIN ev :
            ev[p].type \in CounterTypes =>
              /\ ev[p].total = Len(ev[1].tickets)
              /\ ev[p].current >= 1
              /\ ev[p].current <= ev[p].total
              /\ (\A q \in 1..(p - 1) : ev[q].type \notin CounterTypes)
                   => ev[p].current = 1
              /\ \A q \in 1..(p - 1) :
                   ev[q].type \in CounterTypes => ev[q].current <= ev[p].current
              /\ ev[p].type \in TerminalTypes => ev[p - 1].current = ev[p].current

\* a run has delivered the events of its second ticket, both with current 2
EventCountersWitness ==
  /\ Len(events[CliInstance]) >= 5
  /\ events[CliInstance][4].type = "processing"
  /\ events[CliInstance][4].current = 2
  /\ events[CliInstance][5].type \in TerminalTypes
  /\ events[CliInstance][5].current = 2

\* C11: in an autopilot run, at the moment the processing event for a ticket
\* is delivered to the callback, the store already holds status working for
\* that ticket.
WorkingBeforeProcessing ==
  \A c \in Instances : processingSaw[c] # Absent => processingSaw[c] = WORKING

\* an event of the given type is among the events ev
HasEvent(ev, type) == \E k \in DOMAIN ev : ev[k].type = type

\* C12: the cancelled field of a run's result is true if and only if the run
\* emitted a cancelled event and left at least one selected ticket
\* unprocessed.
CancelledIffCutShort ==
  LET r == result[CliInstance]
      ev == events[CliInstance]
  IN (pc[CliInstance] = "idle" /\ r # NoResult) =>
       (r.cancelled <=> /\ HasEvent(ev, "cancelled")
                        /\ Len(r.completed) + Len(r.failed) < ev[1].total)

\* C13: a run that finds no pending ticket emits exactly one event,
\* no_tickets (so neither started nor completed), returns the empty result,
\* provisions no worktree, leaves the store unchanged and is over at once.
NoTicketsRun ==
  [][(pc[CliInstance] = "idle" /\ Len(FilterPending(tickets)) = 0)
       => /\ events'[CliInstance] = << [type |-> "no_tickets"] >>
          /\ result'[CliInstance] =
               [completed |-> <<>>, failed |-> <<>>, cancelled |-> FALSE]
          /\ tickets' = tickets
          /\ worktrees' = worktrees
          /\ pc'[CliInstance] = "idle"
          /\ ~autopilotRunning'[CliInstance]]_vars

\* a run on a store whose tickets are all processed has returned
NoTicketsRunWitness ==
  /\ tickets # <<>>
  /\ Len(FilterPending(tickets)) = 0
  /\ pc[CliInstance] = "idle"
  /\ events[CliInstance] = << [type |-> "no_tickets"] >>
  /\ result[CliInstance] = [completed |-> <<>>, failed |-> <<>>, cancelled |-> FALSE]

\* the ticket at hand in the run of CliInstance, and whether the preparation
\* loop provisioned its worktree
CurrentId == pendingTickets[CliInstance][i[CliInstance]].id
Unprovisioned == CurrentId \notin worktreeMap[CliInstance]

\* the step is a stop request reaching the run of CliInstance
StopArrives ==
  ~autopilotShouldStop[CliInstance] /\ autopilotShouldStop'[CliInstance]

\* C14 as the specification states it: a ticket whose worktree the
\* preparation loop failed to provision fails in its own resolution step: it
\* is listed in failed and its status is error.
UnprovisionedFails ==
  [][(pc[CliInstance] = "resolved" /\ Unprovisioned)
       => /\ tickets'[Current].status = ERROR
          /\ \E k \in DOMAIN FailedAfter : FailedAfter[k].ticket = CurrentId]_vars

\* C14, amended: a failure to provision a worktree ends neither the
\* preparation loop nor the run; the resolution step of that ticket calls the
\* pipeline without a worktree, which provisions one itself; when the
\* pipeline fails the ticket is listed in failed with status error, and when
\* it succeeds the ticket is listed in completed with status closed, its
\* worktree in place.
ProvisioningRetried ==
  [][/\ (pc[CliInstance] = "preparing" /\ ~StopArrives
           /\ i[CliInstance] < Len(pendingTickets[CliInstance]))
          => /\ pc'[CliInstance] = "preparing"
             /\ i'[CliInstance] = i[CliInstance] + 1
             /\ pendingTickets'[CliInstance] = pendingTickets[CliInstance]
     /\ (pc[CliInstance] = "preparing" /\ ~StopArrives
           /\ i[CliInstance] = Len(pendingTickets[CliInstance])
           /\ ~autopilotShouldStop[CliInstance])
          => /\ pc'[CliInstance] = "resolving"
             /\ i'[CliInstance] = 1
     /\ (pc[CliInstance] = "resolving" /\ Unprovisioned
           /\ pc'[CliInstance] = "resolved" /\ resolved'.result.success)
          => /\ CurrentId \in worktrees'
             /\ resolved'.result.worktreePath = CurrentId
     /\ (pc[CliInstance] = "resolved" /\ Unprovisioned)
          => IF resolved.result.success
             THEN /\ tickets'[Current].status = CLOSED
                  /\ \E k \in DOMAIN CompletedAfter :
                       CompletedAfter[k].ticket = CurrentId
             ELSE /\ tickets'[Current].status = ERROR
                  /\ tickets'[Current].error = resolved.result.error
                  /\ \E k \in DOMAIN FailedAfter :
                       FailedAfter[k].ticket = CurrentId]_vars

\* of two selected tickets the first was not provisioned and the second was,
\* and the pipeline has succeeded for the first
ProvisioningRetriedWitness ==
  /\ Len(pendingTickets[CliInstance]) = 2
  /\ i[CliInstance] = 1
  /\ pc[CliInstance] = "resolved"
  /\ worktreeMap[CliInstance] = {pendingTickets[CliInstance][2].id}
  /\ resolved.result.success
  /\ pendingTickets[CliInstance][1].id \in worktrees

\* C15: stopAutopilot called while no run is in progress has no effect: the
\* status of an instance that is not running never reports shouldStop, the
\* run started after such a call begins with the flag clear, and a run
\* during which stopAutopilot is not called processes every ticket it
\* selected and returns cancelled = FALSE.
IdleStopHasNoEffect ==
  [][/\ ~autopilotRunning'[CliInstance] => ~autopilotShouldStop'[CliInstance]
     /\ (stopCalls[CliInstance].idle /\ ~stopCalls'[CliInstance].idle)
          => /\ ~autopilotRunning[CliInstance]
             /\ ~autopilotShouldStop'[CliInstance]
             /\ \/ pc'[CliInstance] = "preparing"
                \/ Len(FilterPending(tickets)) = 0
     /\ (pc[CliInstance] # "idle" /\ pc'[CliInstance] = "idle"
           /\ ~stopCalls[CliInstance].running)
          => /\ ~result'[CliInstance].cancelled
             /\ ~HasEvent(events'[CliInstance], "cancelled")
             /\ Len(result'[CliInstance].completed)
                  + Len(result'[CliInstance].failed)
                  = Len(pendingTickets[CliInstance])]_vars

\* stopAutopilot has been called on the idle instance, after a run that a
\* stop request cut short and with a ticket left to select
IdleStopWitness ==
  /\ stopCalls[CliInstance].idle
  /\ ~autopilotRunning[CliInstance]
  /\ ~autopilotShouldStop[CliInstance]
  /\ result[CliInstance] # NoResult
  /\ result[CliInstance].cancelled
  /\ Len(FilterPending(tickets)) > 0

\* C16: while a run started through POST /api/tickets/autopilot is processing
\* a ticket, GET /api/tickets/autopilot/status reports running = TRUE, and a
\* POST /api/tickets/autopilot/stop sets the stop flag of that run, which
\* makes it stop after the ticket at hand.
WebRoutesControlRun ==
  [][\A c \in RequestInstances :
       (pc[c] = "resolving" /\ httpResponse' # httpResponse)
         => /\ httpResponse'.code = 200
            /\ httpResponse'.request = "status"
                 => /\ "status" \in DOMAIN httpResponse'.body
                    /\ httpResponse'.body.status.running
            /\ httpResponse'.request = "stop" => autopilotShouldStop'[c]]_vars

\* the tickets of the store with status working
WorkingTickets == {k \in DOMAIN tickets : tickets[k].status = WORKING}

\* C17: in an autopilot run with no other writer of the store at most one
\* ticket has status working; exactly one, the ticket at hand, from the call
\* of the pipeline until its outcome is stored; and none during the
\* preparation of the worktrees and after the run has returned.
OneWorkingTicket ==
  /\ Cardinality(WorkingTickets) <= 1
  /\ pc[CliInstance] \in {"resolving", "resolved"} => WorkingTickets = {Current}
  /\ pc[CliInstance] \in {"idle", "preparing"} => WorkingTickets = {}

\* the pipeline is executing for the second ticket of a run, and the first
\* has left status working
OneWorkingTicketWitness ==
  /\ pc[CliInstance] = "resolving"
  /\ i[CliInstance] = 2
  /\ WorkingTickets = {Current}
  /\ tickets[FindIndex(tickets, pendingTickets[CliInstance][1].id)].status
       \in {CLOSED, ERROR}

\* C18: in every store state a ticket carries an error message only if its
\* status is error.
ErrorOnlyInError ==
  \A k \in DOMAIN tickets :
    tickets[k].error # Absent => tickets[k].status = ERROR

\* C19: every store write that moves a ticket to working sets startedAt, to
\* stopped sets stoppedAt and to closed sets closedAt, and a timestamp that
\* is set on a ticket stays set in every later state of the store.
TimestampsSetAndKept ==
  [][\A k \in DOMAIN tickets :
       /\ k \in DOMAIN tickets'
       /\ tickets'[k].id = tickets[k].id
       /\ (tickets'[k].status = WORKING /\ tickets[k].status # WORKING)
            => tickets'[k].startedAt # Absent
       /\ (tickets'[k].status = STOPPED /\ tickets[k].status # STOPPED)
            => tickets'[k].stoppedAt # Absent
       /\ (tickets'[k].status = CLOSED /\ tickets[k].status # CLOSED)
            => tickets'[k].closedAt # Absent
       /\ tickets[k].startedAt # Absent => tickets'[k].startedAt # Absent
       /\ tickets[k].stoppedAt # Absent => tickets'[k].stoppedAt # Absent
       /\ tickets[k].closedAt # Absent => tickets'[k].closedAt # Absent]_vars

\* a ticket that was started, stopped, started again and then closed carries
\* the three timestamps
TimestampsWitness ==
  \E k \in DOMAIN tickets :
    /\ tickets[k].status = CLOSED
    /\ tickets[k].startedAt # Absent
    /\ tickets[k].stoppedAt # Absent
    /\ tickets[k].closedAt # Absent

\* the store without its j-th ticket
Without(store, j) == SubSeq(store, 1, j - 1) \o SubSeq(store, j + 1, Len(store))

\* C20: after any sequence of create, import and delete operations no two
\* tickets of the store have the same id, and an operation leaves the id and
\* createdAt of every ticket that it does not delete as they are.
UniqueImmutableIds ==
  [][/\ \A j, k \in DOMAIN tickets' :
          tickets'[j].id = tickets'[k].id => j = k
     /\ \/ /\ Len(tickets') >= Len(tickets)
           /\ \A k \in DOMAIN tickets :
                /\ tickets'[k].id = tickets[k].id
                /\ tickets'[k].createdAt = tickets[k].createdAt
        \/ \E j \in DOMAIN tickets : tickets' = Without(tickets, j)]_vars

\* the last call was a description update that found its ticket in status
IsUpdateOf(status) ==
  /\ call # NoResult
  /\ call.op \in {"PATCH", "update-ticket"}
  /\ call.found # NoResult
  /\ call.found.status = status

\* C21: a description update (PATCH /api/tickets/:id or update-ticket) for a
\* ticket that is working leaves the stored description as it was
DescriptionFixedWhileWorking ==
  IsUpdateOf(WORKING) =>
    GetTicket(tickets, call.id).description = call.found.description

\* the last call made directly was operation op
IsCall(op) == call # NoResult /\ call.op = op

\* C22: a createWorktree that repeats a successful one for the same ticket
\* returns the same path, runs no git command, leaves the directories as they
\* are and does not fail
EnsureWorktreeIdempotent ==
  (IsCall("createWorktree") /\ call.again) =>
    /\ call.ok
    /\ call.path = call.id
    /\ ~call.git
    /\ worktrees = call.before

InvalidResolve ==
  /\ IsCall("resolve")
  /\ (~call.env.cli \/ ~automationPath \/ ~baseRepositoryPath)

\* C24: a resolve() whose validation fails returns a failure with the message
\* of the validation and has called no collaborator: no worktree is created or
\* removed, the caller's included, the agent is not run and nothing is
\* committed
ValidationFailureTouchesNothing ==
  InvalidResolve =>
    /\ ~call.returned.thrown
    /\ ~call.returned.result.success
    /\ call.returned.result.error \in
         {ErrCliNotFound, ErrAutomationPath, ErrBaseRepositoryPath}
    /\ call.returned.result.worktreePath = Absent
    /\ call.steps = <<>>
    /\ worktrees = call.before
    /\ call.returned.agent = AgentNotRun
    /\ call.returned.commit = Absent

\* validation failed in a call that was handed an existing worktree with
\* cleanupOnError set, and the worktree is still there
ValidationFailureWitness ==
  /\ InvalidResolve
  /\ call.existingWorktree # Absent
  /\ call.cleanupOnError
  /\ baseRepositoryPath
  /\ call.existingWorktree \in worktrees

LastStep(steps) == IF steps = <<>> THEN Absent ELSE steps[Len(steps)]

AcquiredResolve ==
  /\ IsCall("resolve")
  /\ ~InvalidResolve
  /\ \/ call.existingWorktree # Absent
     \/ (call.env.git /\ call.id \notin call.before)

\* the worktree of the last call of resolve()
CallWorktree ==
  IF call.existingWorktree # Absent THEN call.existingWorktree ELSE call.id

OnlyEarlyStepsFatal ==
  (AcquiredResolve /\ call.env.agent) => call.returned.result.success

\* C27: resolve() succeeds exactly when validation, the acquisition of the
\* worktree, the agent, the git status and, for a changed worktree, the
\* commit and the test branch succeed; whether the commit message or the
\* summary could be generated makes no difference
EnrichmentNeverFatal ==
  IsCall("resolve") =>
    (call.returned.result.success <=>
       /\ AcquiredResolve
       /\ call.env.agent
       /\ call.env.status
       /\ call.env.changed => (call.env.commit /\ call.env.test))

\* the SDK was missing or its commit message session failed, on a changed
\* worktree, and the call succeeded
EnrichmentNeverFatalWitness ==
  /\ IsCall("resolve")
  /\ call.env.changed
  /\ ~call.env.message
  /\ call.returned.result.success
  /\ call.returned.result.hasChanges

\* the last call was a resolve() that came to commit a changed worktree
CommittingResolve ==
  /\ AcquiredResolve
  /\ call.env.agent
  /\ call.env.status
  /\ call.env.changed
  /\ call.env.commit

\* C28: when the commit message could not be generated (no SDK or no diff, or
\* the session of the generator failed) the commit is made all the same, with
\* the default message of commitInWorktree
DefaultMessageOnEnrichmentFailure ==
  (CommittingResolve /\ (~call.env.sdk \/ ~call.env.message)) =>
    call.returned.commit = CommitDefault

\* C29: a resolve() that committed changes and returns success carries a
\* summary, whether or not the summary could be generated
SummaryAlwaysPresent ==
  (IsCall("resolve") /\ call.returned.result.success
     /\ call.returned.commit # Absent) =>
    call.returned.result.summary # Absent

\* step occurs in the sequence steps
HasStep(steps, step) == \E k \in DOMAIN steps : steps[k] = step

\* C30: the result of resolve() names a test branch or a commit message only
\* when it reports changes, and a failure reports no changes and no test
\* branch; createTestBranch is called only after commitInWorktree has made a
\* commit
TestBranchOnlyAfterCommit ==
  IsCall("resolve") =>
    LET r == call.returned.result
    IN /\ (r.testBranch # Absent \/ r.commitMessage # Absent) => r.hasChanges
       /\ ~r.success => (~r.hasChanges /\ r.testBranch = Absent)
       /\ HasStep(call.steps, "createTestBranch") =>
            /\ call.returned.commit # Absent
            /\ \E j, k \in DOMAIN call.steps :
                 /\ j < k
                 /\ call.steps[j] = "commitInWorktree"
                 /\ call.steps[k] = "createTestBranch"

\* a call committed the changes of its worktree and returned the test branch
TestBranchWitness ==
  /\ IsCall("resolve")
  /\ call.returned.result.success
  /\ call.returned.result.hasChanges
  /\ call.returned.result.testBranch = TestBranch
  /\ call.returned.commit # Absent
  /\ HasStep(call.steps, "createTestBranch")

\* a call of resolve() has just returned to its caller
HasReturned(r) == r # NoResult /\ ~r.thrown

RECURSIVE Rendered(_, _, _)
Rendered(template, id, description) ==
  IF template = <<>> THEN <<>>
  ELSE LET piece == Head(template)
           filled == IF piece = PlaceholderId THEN id
                     ELSE IF piece = PlaceholderDescription THEN description
                     ELSE piece
       IN <<filled>> \o Rendered(Tail(template), id, description)

\* C33: buildPrompt(ticket) returns the configured ticket-resolution template
\* with every ${ID} replaced by the ticket id and every ${DESCRIPTION} by the
\* ticket description verbatim, and no placeholder is left in the result.
PromptFromTemplate ==
  IsCall("buildPrompt") =>
    /\ call.prompt = Rendered(GetTicketResolutionPrompt(call.configured),
                              call.ticket.id, call.ticket.description)
    /\ \A k \in DOMAIN call.prompt :
         call.prompt[k] \notin {PlaceholderId, PlaceholderDescription}

\* the last call was Commands.delete on a ticket of the store, confirmed
ConfirmedDelete == IsCall("delete") /\ call.found /\ call.confirmed

\* C32: git cleanup never blocks the deletion of the ticket record.  After
\* Commands.delete on an existing, confirmed ticket the store is the store of
\* before without that record, whichever step of the cleanup failed or threw.
CleanupNeverBlocksDelete ==
  ConfirmedDelete =>
    /\ tickets = Without(call.before, FindIndex(call.before, call.id))
    /\ Len(tickets) = Len(call.before) - 1
    /\ ~HasTicket(tickets, call.id)

\* the removal of the worktree threw, the directory is still there, and the
\* record is gone while the other ticket stays
CleanupNeverBlocksWitness ==
  /\ ConfirmedDelete
  /\ call.thrown
  /\ call.id \in worktrees
  /\ Len(call.before) = 2
  /\ Len(tickets) = 1

\* the last call was a createTestBranch that returned
TestBranchCreated == IsCall("createTestBranch") /\ call.ok

\* C34: after createTestBranch(id) returns, test/copilot/{id} exists and
\* points at the head of copilot/{id}, whatever branch of that name there was
\* before; copilot/{id} is unchanged, no other branch has changed, and the
\* base repository has the base branch checked out.
TestBranchAtCopilotHead ==
  TestBranchCreated =>
    /\ call.branch = TestBranchOf(call.id)
    /\ call.before.at[CopilotBranch(call.id)] # 0
    /\ repo.at[TestBranchOf(call.id)] = call.before.at[CopilotBranch(call.id)]
    /\ \A b \in BranchNames \ {TestBranchOf(call.id)} :
         repo.at[b] = call.before.at[b]
    /\ repo.head = BaseBranch

\* a test branch that pointed elsewhere has been replaced
TestBranchReplacedWitness ==
  /\ TestBranchCreated
  /\ call.before.at[TestBranchOf(call.id)] # 0
  /\ call.before.at[TestBranchOf(call.id)] # call.before.at[CopilotBranch(call.id)]
  /\ call.before.head # BaseBranch

\* the ids of the tickets the run in progress selected
SelectedIds ==
  {pendingTickets[CliInstance][k].id : k \in DOMAIN pendingTickets[CliInstance]}

\* C35: an autopilot run writes only status, startedAt, closedAt, summary and
\* error, and only of the tickets it selected: no step of a run adds or
\* removes a record, changes id, name, description, createdAt, stoppedAt or
\* branch of any ticket, or changes a ticket that was not pending at selection;
\* the tickets it writes have no branch.
RunWritesOnlyOutcome ==
  [][/\ Len(tickets') = Len(tickets)
     /\ \A k \in DOMAIN tickets :
          LET t == tickets[k]
              u == tickets'[k]
          IN /\ u.id = t.id
             /\ u.name = t.name
             /\ u.description = t.description
             /\ u.createdAt = t.createdAt
             /\ u.stoppedAt = t.stoppedAt
             /\ u.branch = t.branch
             /\ u # t => t.id \in SelectedIds /\ u.branch = Absent]_vars

\* a run has returned after it closed a ticket, with its summary, beside a
\* ticket that was stopped before the run and carries a branch
RunWritesOnlyOutcomeWitness ==
  /\ result[CliInstance] # NoResult
  /\ \E j, k \in DOMAIN tickets :
       /\ CountIn(result[CliInstance].completed, tickets[k].id) = 1
       /\ tickets[k].status = CLOSED
       /\ tickets[k].summary # Absent
       /\ tickets[k].branch = Absent
       /\ CountIn(result[CliInstance].completed, tickets[j].id) = 0
       /\ tickets[j].status = STOPPED
       /\ tickets[j].branch # Absent

\* Commands.getAutopilotStatus of the instance of index.ts
AutopilotStatus ==
  [running |-> autopilotRunning[CliInstance],
   shouldStop |-> autopilotShouldStop[CliInstance]]

\* C36: whenever a call of autopilotMode has returned or thrown (no pending
\* ticket, completion, cancellation, or an exception that leaves the loop),
\* getAutopilotStatus reports running false and shouldStop false, and the run
\* that starts next begins with the stop flag down.
StatusClearAfterRun ==
  /\ [](pc[CliInstance] = "idle" => AutopilotStatus = FreshStatus)
  /\ [][pc[CliInstance] = "idle" /\ pc'[CliInstance] # "idle"
          => ~autopilotShouldStop'[CliInstance]]_vars

\* a call has thrown out of its loop after a stop request: updates were
\* delivered, nothing was returned, and the instance is idle
StatusClearWitness ==
  /\ pc[CliInstance] = "idle"
  /\ result[CliInstance] = NoResult
  /\ HasEvent(events[CliInstance], "cancelled")
  /\ AutopilotStatus = FreshStatus

\* the run on instance c takes up a ticket with this step: the processing
\* event and the first statement of resolveTicketAutopilot
TakesUp(c) == pc'[c] = "resolving" /\ pc[c] # "resolving"

\* C37: with interactive start, stop and delete requests interleaved with a
\* running batch, the batch marks a ticket working (and goes on to resolve
\* it) only if the store holds the ticket with status pending at that moment
MarksOnlyPending ==
  [][\A c \in Instances :
       TakesUp(c) =>
         LET id == pendingTickets'[c][i'[c]].id
         IN /\ HasTicket(tickets, id)
            /\ GetTicket(tickets, id).status = PENDING]_vars

\* what get-ticket returns for the ticket of the last call carries the
\* modification the call reported as made
Persisted ==
  /\ (IsCall("stop-ticket") /\ call.code = 200) =>
       /\ HasTicket(tickets, call.id)
       /\ GetTicket(tickets, call.id).status = STOPPED
       /\ GetTicket(tickets, call.id).stoppedAt # Absent
  /\ (IsCall("update-ticket") /\ call.code = 200) =>
       /\ HasTicket(tickets, call.id)
       /\ GetTicket(tickets, call.id).description = call.description

\* C38: when stop-ticket or update-ticket of the desktop shell returns
\* success, the store holds the modification it returned: status stopped and
\* stoppedAt, or the new description
IpcSuccessPersisted == [][call' # call => Persisted']_vars

\* the events that end a run
TerminalEvents(ev) == {k \in DOMAIN ev : ev[k].type \in {"completed", "no_tickets"}}

\* the events that announce a call of the pipeline
ProcessingEvents(ev) == {k \in DOMAIN ev : ev[k].type = "processing"}

\* the run on the command line instance has returned to its caller
HasRun == ~autopilotRunning[CliInstance] /\ result[CliInstance] # NoResult

\* while a run is in progress no terminal event has been sent, and the
\* pipeline has been called for the first i tickets of the selection, once
\* each; a run that has returned has sent one terminal event, as its last
\* event: no_tickets alone when nothing was selected, else completed after at
\* most as many calls of the pipeline as tickets were selected
RunBounded ==
  LET ev == events[CliInstance]
      selected == pendingTickets[CliInstance]
  IN /\ autopilotRunning[CliInstance] =>
          /\ TerminalEvents(ev) = {}
          /\ pc[CliInstance] = "preparing" => ProcessingEvents(ev) = {}
          /\ pc[CliInstance] \in {"resolving", "resolved"} =>
               /\ i[CliInstance] \in 1..Len(selected)
               /\ Cardinality(ProcessingEvents(ev)) = i[CliInstance]
               /\ \A k \in 1..i[CliInstance] :
                    \E e \in ProcessingEvents(ev) :
                      ev[e].current = k /\ ev[e].ticket.id = selected[k].id
     /\ HasRun =>
          /\ TerminalEvents(ev) = {Len(ev)}
          /\ IF ev[1].type = "started"
             THEN /\ ev[Len(ev)].type = "completed"
                  /\ ev[1].total > 0
                  /\ Cardinality(ProcessingEvents(ev)) <= ev[1].total
                  /\ \A j, k \in ProcessingEvents(ev) :
                       ev[j].ticket.id = ev[k].ticket.id => j = k
             ELSE ev = <<NoTicketsEvent>>

\* the pipeline is called in a step from resolving to resolved only, and a
\* run comes to that call by taking up the ticket after the one it called the
\* pipeline for before
OneCallPerTicket ==
  TakesUp(CliInstance) =>
    i'[CliInstance] = IF pc[CliInstance] = "preparing" THEN 1
                      ELSE i[CliInstance] + 1

ConsoleIntact ==
  IF interceptor.isIntercepting
  THEN /\ interceptor.consoleLog = InterceptorFunction
       /\ interceptor.consoleError = InterceptorFunction
       /\ interceptor.originalLog = OriginalFunction
       /\ interceptor.originalError = OriginalFunction
  ELSE /\ interceptor.consoleLog = OriginalFunction
       /\ interceptor.consoleError = OriginalFunction

\* C40: the interception that the ui command started stays active for the
\* life of the process, also when autopilot runs begin and end in it, and the
\* console functions are the interceptors or the original functions
InterceptionOutlivesRuns ==
  /\ interceptor.isIntercepting
  /\ ConsoleIntact

====
